---- MODULE Spec2Model ----
(***************************************************************************)
(* Inheritance wallet (hynek-jina/inheritance): the account store, the     *)
(* balance refresh, funding-address issuance, the activation sweep, the    *)
(* co-signed spend and the spend-eligibility computation of                *)
(* src/src/services/wallet.ts, over an abstract chain-data API.            *)
(*                                                                         *)
(* An address string is modelled by the triple it is derived from (key     *)
(* pair, change, index): derivation is a pure injective function of it.    *)
(* Every `await` on the chain-data API is a step boundary; the code        *)
(* between two awaits is one atomic step (single-threaded event loop).     *)
(***************************************************************************)
EXTENDS Integers, Sequences, FiniteSets, TLC

\* ---------------------------------------------------------------- bounds
MaxTip == 3             \* highest block height of the modelled chain
MaxDeposits == 2        \* deposits the environment makes
MaxFundingAddrs == 2    \* funding receive addresses generateNewAddress issues
AuditLimit == 2         \* ADDRESS_AUDIT_LIMIT (10 in the source), scaled down
MaxBlocks == 21         \* block counts and thresholds of the eligibility check
MaxRefreshes == 1       \* updateAccountBalance calls a party starts
MaxSuccessive == 2      \* successive refreshes of one account in the eligibility history
MaxActivations == 2     \* activateInheritanceFunds calls a party starts
MaxApiFailures == 1     \* chain-data requests that fail or are rate limited
MaxSpendCalls == 1      \* PSBT creations, and completions, a party starts
MaxThreshold == 1       \* block thresholds of the conditions a share can carry
MaxIssued == 4          \* funding receive addresses issued beyond the audit range
MaxApiCalls == 3        \* calls made on the API client
MaxServed == 2          \* answers with data the API server gives
MaxNow == 16000         \* ms on the clock of the API client
MaxGenerations == 2     \* generateMnemonic calls
MaxEdits == 1           \* edits made to an entered text
MaxShared == 1          \* inheritance accounts created from the form
MaxClock == 2           \* ms that pass on the clock while accounts are created
MaxAccounts == 2        \* accounts in a wallet's store
MaxReceive == 2         \* receive addresses generateNewAddress gives an account
DiscoveryLimit == 2     \* accounts discoverAccounts looks at (5 in the source), scaled down

\* ------------------------------------------------------ program constants
DustLimit == 330
RateLimitCooldownMs == 15000

Parties == {"user", "heir"}
DepositValues == {600}
FeeRates == {0, 1, 2}          \* sat/vB offered by callers (0 is invalid)
InhId == "inh"
StdId == "std"
Null == -1                      \* JavaScript null for a number

Max(a, b) == IF a >= b THEN a ELSE b
Min(a, b) == IF a <= b THEN a ELSE b

RECURSIVE SumValues(_)
SumValues(S) ==
  IF S = {} THEN 0
  ELSE LET x == CHOOSE y \in S : TRUE IN x.value + SumValues(S \ {x})

RECURSIVE MinOf(_)
MinOf(S) ==
  LET x == CHOOSE y \in S : TRUE
  IN IF S = {x} THEN x ELSE Min(x, MinOf(S \ {x}))

RECURSIVE MaxOf(_)
MaxOf(S) ==
  LET x == CHOOSE y \in S : TRUE
  IN IF S = {x} THEN x ELSE Max(x, MaxOf(S \ {x}))

Range(s) == {s[i] : i \in 1..Len(s)}
Exists(s, Test(_)) == \E i \in 1..Len(s) : Test(s[i])

\* ------------------------------------------------------------- addresses
\* deriveInheritanceAddressFromXpubs(userXpub, otherXpub, index, change[, branch]):
\* pair = "funding" for (user, server, fundingBranch), "active" for (user, heir).
deriveInheritanceAddressFromXpubs(pair, index, change) ==
  [pair |-> pair, change |-> change, index |-> index]

\* An address outside the wallets (a recipient).
ExternalAddress(n) == [pair |-> "external", change |-> 0, index |-> n]

\* A string that bitcoin.address.toOutputScript cannot decode for the active
\* network (malformed, or an address of another network): it throws.
UndecodableAddress == [pair |-> "undecodable", change |-> 0, index |-> 0]
toOutputScriptThrows(address) == address.pair = "undecodable"

\* A JavaScript number a caller passes: an integer, a number strictly between
\* value and value + 1, NaN or +Infinity.
Integer(n) == [kind |-> "integer", value |-> n]
Fraction(floor) == [kind |-> "fraction", value |-> floor]
NaN == [kind |-> "NaN", value |-> 0]
Infinity == [kind |-> "Infinity", value |-> 0]

NumberIsInteger(x) == x.kind = "integer"
NumberIsFinite(x) == x.kind \in {"integer", "fraction"}
\* x <= 0 (false for NaN and for +Infinity).
NotPositive(x) ==
  \/ x.kind = "integer" /\ x.value <= 0
  \/ x.kind = "fraction" /\ x.value < 0

\* deriveTaprootAddress(masterKey, accountIndex, index, change) of the one
\* standard account a wallet has.
deriveTaprootAddress(index, change) ==
  [pair |-> "standard", change |-> change, index |-> index]

\* A DerivedAddress entry; role "none" is an entry without a role (legacy).
DerivedAddress(index, address, change, used, balance, role) ==
  [index |-> index, address |-> address, change |-> change, used |-> used,
   balance |-> balance, role |-> role]

isFundingAddress(address) == address.role = "funding"
isActiveInheritanceAddress(address) == address.role # "funding"

isInheritanceAccountActivated(account) ==
  IF account.type # "inheritance" THEN FALSE
  ELSE IF account.inheritanceActivated THEN TRUE
  ELSE Exists(account.derivedAddresses,
         LAMBDA address :
           /\ address.role \in {"active", "none"}
           /\ (address.used \/ address.balance > 0))

\* ------------------------------------------------------------ eligibility
SpendingConditions(m, u, h) ==
  [noSpendBlocks |-> m, multisigAfterBlocks |-> m,
   userOnlyAfterBlocks |-> u, heirOnlyAfterBlocks |-> h]

\* blocksSinceFunding of calculateInheritanceStatus from the API answers:
\* tipHeight (Null on failure) and the set of non-null first-funding heights.
blocksSinceFundingOf(hasFunded, tipHeight, validFundingHeights) ==
  IF ~hasFunded THEN 0
  ELSE LET firstFundingHeight ==
             IF validFundingHeights # {} THEN MinOf(validFundingHeights) ELSE Null
       IN IF tipHeight # Null /\ firstFundingHeight # Null
          THEN Max(0, tipHeight - firstFundingHeight)
          ELSE 0

\* inheritanceStatusOf with the heir's window opening one block late (> for
\* >=): the variant that the window property of C6 must tell apart.
inheritanceStatusOfLate(conditions, blocksSinceFunding) ==
  [blocksSinceFunding |-> blocksSinceFunding,
   canUserSpend |-> blocksSinceFunding >= conditions.userOnlyAfterBlocks,
   canHeirSpend |-> blocksSinceFunding > conditions.heirOnlyAfterBlocks,
   requiresMultisig |->
     /\ blocksSinceFunding >= conditions.multisigAfterBlocks
     /\ blocksSinceFunding < conditions.userOnlyAfterBlocks]

inheritanceStatusOf(conditions, blocksSinceFunding) ==
  [blocksSinceFunding |-> blocksSinceFunding,
   canUserSpend |-> blocksSinceFunding >= conditions.userOnlyAfterBlocks,
   canHeirSpend |-> blocksSinceFunding >= conditions.heirOnlyAfterBlocks,
   requiresMultisig |->
     /\ blocksSinceFunding >= conditions.multisigAfterBlocks
     /\ blocksSinceFunding < conditions.userOnlyAfterBlocks]

calculateInheritanceStatus(conditions, hasFunded, tipHeight, validFundingHeights) ==
  inheritanceStatusOf(conditions,
    blocksSinceFundingOf(hasFunded, tipHeight, validFundingHeights))

\* ------------------------------------------------------------------- fees
\* Math.ceil(estimatedVbytes * feeRate); callers offer whole sat/vB rates here,
\* for which the ceiling is the product itself.
estimateInheritanceMultisigFee(inputCount, outputCount, feeRate) ==
  (12 + inputCount * 110 + outputCount * 43) * feeRate

\* estimateTaprootFee(inputCount, outputCount, feeRate), for whole rates.
estimateTaprootFee(inputCount, outputCount, feeRate) ==
  (10 + inputCount * 58 + outputCount * 43) * feeRate

\* ------------------------------------------------------------------ state
VARIABLES
  tip,        \* chain: height of the best block
  outputs,    \* chain: every transaction output paid to an account address
  txs,        \* chain: transactions accepted by broadcastTransaction
  nextTxid,   \* chain: next transaction id
  store,      \* store[p]: localStorage "btc_accounts" of party p (array of Account)
  held,       \* held[p]: the Account object the UI of party p holds in memory
  rf,         \* rf[p]: the updateAccountBalance call in progress
  act,        \* act[p]: the activateInheritanceFunds call in progress
  result,     \* result[p]: outcome of the last call that returned or threw
  calls,      \* calls[p]: how many calls of each kind party p has started
  apiFailures, \* chain-data requests that have failed so far
  sp,         \* sp[p]: the createInheritancePartiallySignedTransaction call in progress
  psbts,      \* PSBTs returned by createInheritancePartiallySignedTransaction
  now,        \* API client: Date.now(), in ms
  rateLimitUntil,   \* API client: the module variable of that name
  inFlightRequests, \* API client: request key -> the caller whose promise is stored
  responseCache,    \* API client: request key -> {expiresAt, data}
  served,     \* API server: answers with data given so far
  apiCall,    \* apiCall[c]: the query or broadcast caller c has in progress
  apiResult,  \* apiResult[c]: what the last call of caller c returned or threw
  slip,       \* the mnemonic operation under study: its inputs and results
  sharing,    \* the share of an inheritance account between two wallets
  network,    \* localStorage "btc_network": the active network
  origins,    \* origins[n]: the network whose server gave the n-th answer
  walletFile  \* localStorage "btc_wallet", and what restoreWallet returned

apiVars == <<now, rateLimitUntil, inFlightRequests, responseCache, served,
             apiCall, apiResult>>

walletVars == <<tip, outputs, txs, nextTxid, store, held, rf, act, result, calls,
                apiFailures, sp, psbts>>

restVars == <<sharing, network, origins, walletFile>>

vars == <<walletVars, apiVars, slip, restVars>>


\* The wallets that share inheritance accounts, and the state before any of
\* them has created one.
Wallets == {"alice", "bob", "carol"}
NoShare == [prefixed |-> FALSE, padded |-> FALSE, json |-> <<>>]
NoImport == [error |-> "not called", value |-> <<>>]
NoSharing ==
  [accounts |-> [w \in Wallets |-> <<>>],
   exporter |-> "none", exported |-> <<>>, rawShare |-> NoShare,
   importer |-> "none", imported |-> NoImport, before |-> <<>>]

NoWallet == [saved |-> FALSE, mnemonic |-> <<>>, outcome |-> "none"]

RestInit ==
  /\ sharing = NoSharing
  /\ network = "signet"
  /\ origins = <<>>
  /\ walletFile = NoWallet

\* ------------------------------------------------------------ account store
NoStatus ==
  [blocksSinceFunding |-> 0, canUserSpend |-> FALSE, canHeirSpend |-> FALSE,
   requiresMultisig |-> FALSE]

\* The Account createInheritanceAccount persists.
NewInheritanceAccount(localRole, conditions) ==
  [id |-> InhId, name |-> "Inheritance", type |-> "inheritance", balance |-> 0,
   addressIndex |-> 1,
   derivedAddresses |->
     << DerivedAddress(0, deriveInheritanceAddressFromXpubs("funding", 0, 0),
                       FALSE, FALSE, 0, "funding"),
        DerivedAddress(0, deriveInheritanceAddressFromXpubs("active", 0, 0),
                       FALSE, FALSE, 0, "active") >>,
   localRole |-> localRole,
   inheritanceActivated |-> FALSE,
   spendingConditions |-> conditions,
   inheritanceStatus |-> NoStatus]

\* The Account createStandardAccount persists when the wallet is created.
NewStandardAccount ==
  [id |-> StdId, name |-> "Main", type |-> "standard", balance |-> 0,
   addressIndex |-> 1,
   derivedAddresses |->
     << DerivedAddress(0, deriveTaprootAddress(0, 0), FALSE, FALSE, 0, "none") >>,
   localRole |-> "none",
   inheritanceActivated |-> FALSE,
   spendingConditions |-> SpendingConditions(0, 0, 0),
   inheritanceStatus |-> NoStatus]

\* accounts.findIndex((a) => a.id === id), 1-based; 0 stands for -1.
findIndex(accounts, id) ==
  IF \E i \in 1..Len(accounts) : accounts[i].id = id
  THEN CHOOSE i \in 1..Len(accounts) :
         /\ accounts[i].id = id
         /\ \A j \in 1..(i - 1) : accounts[j].id # id
  ELSE 0

loadAccounts(p) == store[p]

\* ------------------------------------------------------- chain-data provider
OutputsAt(address) == {o \in outputs : o.address = address}
UtxosAt(address) == {o \in outputs : o.address = address /\ ~o.spent}

ZeroStats == [funded |-> 0, balance |-> 0]
ChainStats(address) ==
  [funded |-> SumValues(OutputsAt(address)),
   balance |-> SumValues(UtxosAt(address))]

\* A request may fail (network error, rate limit) while the failure budget
\* lasts; `fail` is the environment's choice for one request.
FailuresLeft == MaxApiFailures - apiFailures
MayFail == IF FailuresLeft > 0 THEN BOOLEAN ELSE {FALSE}
CountFailures(n) == apiFailures' = apiFailures + n

\* getAddressFundingStats: the chain's figures, or zeros when the request fails
\* or is rate limited.
getAddressFundingStats(address, fail) ==
  IF fail THEN ZeroStats ELSE ChainStats(address)

\* getAddressUTXOs: the unspent outputs, or [] when the request fails.
getAddressUTXOs(address, fail) == IF fail THEN {} ELSE UtxosAt(address)

\* getCurrentBlockHeight: the tip, or null when the request fails.
getCurrentBlockHeight(fail) == IF fail THEN Null ELSE tip

\* getAddressFirstFundingBlockHeight: lowest height of a confirmed output with
\* value > 0 paid to the address; null if there is none or the request fails.
getAddressFirstFundingBlockHeight(address, fail) ==
  LET heights == {o.height : o \in {x \in OutputsAt(address) :
                                      x.height # 0 /\ x.value > 0}}
  IN IF fail \/ heights = {} THEN Null ELSE MinOf(heights)

\* ----------------------------------------------------- updateAccountBalance
hasAddress(account, address) ==
  Exists(account.derivedAddresses, LAMBDA known : known.address = address)

\* The candidates the audit loop derives for index 0 .. AuditLimit-1, in the
\* order of the loop: funding receive, funding change, active receive,
\* active change.
AuditCandidate(j) ==
  LET index == (j - 1) \div 4
      kind == (j - 1) % 4
      pair == IF kind < 2 THEN "funding" ELSE "active"
      change == kind % 2
  IN DerivedAddress(index, deriveInheritanceAddressFromXpubs(pair, index, change),
                    change = 1, FALSE, 0, pair)

AuditCandidates == [j \in 1..(4 * AuditLimit) |-> AuditCandidate(j)]

expectedFundingAddresses ==
  {deriveInheritanceAddressFromXpubs("funding", index, change) :
     index \in 0..(AuditLimit - 1), change \in {0, 1}}

\* candidates = [...account.derivedAddresses] followed by every derived
\* candidate whose address is not yet known (addCandidate).
buildCandidates(account) ==
  account.derivedAddresses \o
    SelectSeq(AuditCandidates, LAMBDA c : ~hasAddress(account, c.address))

\* Array.prototype.sort with the comparator of updateAccountBalance
\* (receive before change, then by index); the sort is stable.
SortsBefore(a, b) ==
  LET changeA == IF a.change THEN 1 ELSE 0
      changeB == IF b.change THEN 1 ELSE 0
  IN IF changeA # changeB THEN changeA < changeB ELSE a.index < b.index

RECURSIVE InsertSorted(_, _)
InsertSorted(sorted, x) ==
  IF sorted = <<>> THEN <<x>>
  ELSE IF SortsBefore(x, sorted[Len(sorted)])
       THEN Append(InsertSorted(SubSeq(sorted, 1, Len(sorted) - 1), x),
                   sorted[Len(sorted)])
       ELSE Append(sorted, x)

RECURSIVE sortAddresses(_)
sortAddresses(s) ==
  IF s = <<>> THEN <<>>
  ELSE InsertSorted(sortAddresses(SubSeq(s, 1, Len(s) - 1)), s[Len(s)])

hasActiveHistoryOf(addresses) ==
  Exists(addresses,
    LAMBDA address :
      /\ address.role \in {"active", "none"}
      /\ (address.used \/ address.balance > 0))

\* Lines 1046-1073: the updated account, built from the caller's object as it
\* is when the loop has ended.
buildUpdatedAccount(account, updatedUnsorted, totalBalance) ==
  LET updatedAddresses == sortAddresses(updatedUnsorted)
      receiveIndexes ==
        {updatedAddresses[i].index :
           i \in {j \in 1..Len(updatedAddresses) : ~updatedAddresses[j].change}}
      maxReceiveIndex == IF receiveIndexes = {} THEN -1 ELSE MaxOf(receiveIndexes)
  IN [account EXCEPT
        !.balance = totalBalance,
        !.addressIndex = Max(account.addressIndex, maxReceiveIndex + 1),
        !.derivedAddresses = updatedAddresses,
        !.inheritanceActivated =
           account.inheritanceActivated \/ hasActiveHistoryOf(updatedAddresses)]

RfIdle == [pc |-> "idle"]

\* The `account` argument of the call in progress: the object the UI still
\* holds (aliased, so it sees what generateNewAddress does to that object), or
\* an object of its own.
RfAccount(p) == IF rf[p].aliased THEN held[p] ELSE rf[p].own

\* updateAccountBalance(account, mnemonic) up to the first chain request:
\* loadAccounts, findIndex, the candidate list.  The argument is the object
\* the UI holds, or (fresh) an object just read from the store, as
\* loadAccountsData passes.  When the id is not in the store the call returns
\* its argument and changes nothing (no step here).
RefreshBegin(p, fresh) ==
  /\ rf[p].pc = "idle"
  /\ calls' = [calls EXCEPT ![p].refresh = @ + 1]
  /\ LET accounts == loadAccounts(p)
         account == IF fresh THEN accounts[findIndex(accounts, InhId)] ELSE held[p]
         accountIndex == findIndex(accounts, account.id)
     IN /\ findIndex(accounts, InhId) # 0
        /\ accountIndex # 0
        /\ account.type = "inheritance"
        /\ rf' = [rf EXCEPT ![p] =
                    [pc |-> "fetch", aliased |-> ~fresh,
                     own |-> IF fresh THEN account ELSE <<>>,
                     accounts |-> accounts,
                     accountIndex |-> accountIndex,
                     candidates |-> buildCandidates(account)]]
  /\ UNCHANGED <<tip, outputs, txs, nextTxid, store, held, act, result, apiFailures, sp, psbts,
                 apiVars, slip, restVars>>

\* A party starts at most MaxRefreshes balance refreshes.
RefreshStart(p, fresh) ==
  /\ calls[p].refresh < MaxRefreshes
  /\ RefreshBegin(p, fresh)

\* The loop over the candidates (lines 1015-1044), its first k iterations:
\* the entries pushed to updatedAddresses and totalBalance.  `failed` are the
\* addresses whose stats request fails; `account` is the caller's object.
RECURSIVE auditLoop(_, _, _, _)
auditLoop(candidates, k, account, failed) ==
  IF k = 0 THEN [updated |-> <<>>, total |-> 0]
  ELSE LET before == auditLoop(candidates, k - 1, account, failed)
           addr == candidates[k]
           stats == getAddressFundingStats(addr.address, addr.address \in failed)
           balance == Max(stats.balance, 0)
           hadAddress == hasAddress(account, addr.address)
           hasActivity == stats.funded > 0 \/ addr.used
           isUnexpectedUnusedLegacyFundingAddress ==
             /\ account.type = "inheritance"
             /\ addr.role = "funding"
             /\ addr.address \notin expectedFundingAddresses
             /\ ~hasActivity
       IN IF isUnexpectedUnusedLegacyFundingAddress \/ (~hadAddress /\ ~hasActivity)
          THEN before
          ELSE [updated |-> Append(before.updated,
                              [addr EXCEPT !.balance = balance,
                                           !.used = hasActivity]),
                total |-> before.total + balance]

\* The stats answers arrive and the loop runs; the updated account is built
\* (lines 1046-1073) and the eligibility requests go out.  The answers are
\* taken from one state of the chain.
RefreshFetch(p) ==
  /\ rf[p].pc = "fetch"
  /\ LET r == rf[p]
         account == RfAccount(p)
         funded == {c.address : c \in {x \in Range(r.candidates) :
                                         ChainStats(x.address) # ZeroStats}}
     IN \E failed \in SUBSET funded :
          LET looped == auditLoop(r.candidates, Len(r.candidates), account, failed)
          IN /\ Cardinality(failed) <= FailuresLeft
             /\ CountFailures(Cardinality(failed))
             /\ rf' = [rf EXCEPT ![p] =
                         [pc |-> "status", aliased |-> r.aliased,
                          own |-> r.own, accounts |-> r.accounts,
                          accountIndex |-> r.accountIndex,
                          updatedAccount |->
                            buildUpdatedAccount(account, looped.updated,
                                                looped.total)]]
  /\ UNCHANGED <<tip, outputs, txs, nextTxid, store, held, act, result, calls, sp, psbts,
                 apiVars, slip, restVars>>

\* calculateInheritanceStatus answers, then accounts[accountIndex] =
\* updatedAccount and saveAccounts(accounts) with the array loaded at the start.
RefreshSave(p) ==
  /\ rf[p].pc = "status"
  /\ LET r == rf[p]
         conditions == RfAccount(p).spendingConditions
         active == SelectSeq(r.updatedAccount.derivedAddresses,
                             isActiveInheritanceAddress)
         fundedAddresses == {a.address : a \in {x \in Range(active) : x.used}}
     IN \E failTip \in MayFail, failed \in SUBSET fundedAddresses :
          LET tipHeight == getCurrentBlockHeight(failTip)
              validFundingHeights ==
                {getAddressFirstFundingBlockHeight(a, a \in failed) :
                   a \in fundedAddresses} \ {Null}
              status == calculateInheritanceStatus(conditions,
                          fundedAddresses # {}, tipHeight, validFundingHeights)
              updatedAccount ==
                [r.updatedAccount EXCEPT !.inheritanceStatus = status]
              failures == Cardinality(failed) + (IF failTip THEN 1 ELSE 0)
          IN /\ failures <= FailuresLeft
             /\ failures > 0 => fundedAddresses # {}
             /\ \A a \in failed :
                  getAddressFirstFundingBlockHeight(a, FALSE) # Null
             /\ CountFailures(failures)
             /\ store' = [store EXCEPT ![p] =
                            [r.accounts EXCEPT ![r.accountIndex] = updatedAccount]]
  /\ rf' = [rf EXCEPT ![p] = RfIdle]
  /\ UNCHANGED <<tip, outputs, txs, nextTxid, held, act, result, calls, sp, psbts,
                 apiVars, slip, restVars>>

\* ------------------------------------------------------- address issuance
NoAddress == [index |-> Null]

\* getNextUnusedAddress(account); NoAddress stands for null.
getNextUnusedAddress(account) ==
  IF account.type = "inheritance" /\ isInheritanceAccountActivated(account)
  THEN NoAddress
  ELSE LET unused ==
             SelectSeq(account.derivedAddresses,
               LAMBDA address :
                 /\ ~address.change
                 /\ ~address.used
                 /\ (account.type = "inheritance" => isFundingAddress(address)))
       IN IF unused # <<>> THEN unused[1] ELSE NoAddress

generateNewAddressRefuses(account) ==
  account.type = "inheritance" /\ isInheritanceAccountActivated(account)

newFundingIndex(account) ==
  Len(SelectSeq(account.derivedAddresses,
        LAMBDA address : ~address.change /\ isFundingAddress(address)))

\* generateNewAddress(mnemonic, account = held[p]).  The activation test
\* reads only the caller's object, which nothing changes during the two key
\* derivations awaited before loadAccounts, so the call is one step.  The
\* caller's object is mutated in place and written over the stored account.
\* `limit` caps the indexes issued.
GenerateNewAddressUpTo(p, limit) ==
  LET account == held[p] IN
  /\ account.type = "inheritance"
  /\ IF generateNewAddressRefuses(account)
     THEN /\ result' = [result EXCEPT ![p] =
                          [op |-> "generateNewAddress", outcome |-> "Activated"]]
          /\ UNCHANGED <<store, held>>
     ELSE LET accounts == loadAccounts(p)
              accountIndex == findIndex(accounts, account.id)
              newIndex == newFundingIndex(account)
              newAddress ==
                DerivedAddress(newIndex,
                  deriveInheritanceAddressFromXpubs("funding", newIndex, 0),
                  FALSE, FALSE, 0, "funding")
              mutated ==
                [account EXCEPT
                   !.derivedAddresses = Append(account.derivedAddresses, newAddress),
                   !.addressIndex = newIndex + 1]
          IN /\ newIndex < limit
             /\ held' = [held EXCEPT ![p] = mutated]
             /\ store' = [store EXCEPT ![p] =
                            IF accountIndex = 0 THEN accounts
                            ELSE [accounts EXCEPT ![accountIndex] = mutated]]
             /\ result' = [result EXCEPT ![p] =
                             [op |-> "generateNewAddress", outcome |-> "ok"]]
  /\ UNCHANGED <<tip, outputs, txs, nextTxid, rf, act, calls, apiFailures, sp, psbts,
                 apiVars, slip, restVars>>

GenerateNewAddress(p) == GenerateNewAddressUpTo(p, MaxFundingAddrs)

\* The UI reads the account afresh from the store (setAccounts(loadAccounts())):
\* a new object.  A call in progress that was given the old object keeps it.
ReadAccount(p) ==
  LET accounts == loadAccounts(p)
      accountIndex == findIndex(accounts, InhId)
      inProgress == rf[p].pc # "idle" /\ rf[p].aliased
  IN /\ accountIndex # 0
     /\ held[p] # accounts[accountIndex] \/ inProgress
     /\ held' = [held EXCEPT ![p] = accounts[accountIndex]]
     /\ rf' = IF inProgress
              THEN [rf EXCEPT ![p].aliased = FALSE, ![p].own = held[p]]
              ELSE rf
     /\ UNCHANGED <<tip, outputs, txs, nextTxid, store, act, result, calls,
                    apiFailures, sp, psbts,
                 apiVars, slip, restVars>>

\* ------------------------------------------------- activateInheritanceFunds
\* collectInheritanceUtxos(account, "funding"): the addresses it queries.
fundingSourceAddresses(account) ==
  SelectSeq(account.derivedAddresses, LAMBDA address : address.role = "funding")

\* collectInheritanceUtxos(account, "active", true): the addresses it queries.
activeSourceAddresses(account) ==
  SelectSeq(account.derivedAddresses,
            LAMBDA address : address.role \in {"active", "none"})

Outpoint(utxo) == [txid |-> utxo.txid, vout |-> utxo.vout]

\* ensureInheritanceActiveAddress(account, participants): the account after
\* the call and the destination entry.
nextActiveIndexOf(account) ==
  LET usedActiveIndexes ==
        {a.index : a \in {x \in Range(account.derivedAddresses) :
                            x.role = "active" /\ ~x.change}}
  IN IF usedActiveIndexes # {} THEN MaxOf(usedActiveIndexes) + 1 ELSE 0

ensureInheritanceActiveAddress(account) ==
  LET nextActiveIndex == nextActiveIndexOf(account)
      destinationAddress ==
        deriveInheritanceAddressFromXpubs("active", nextActiveIndex, 0)
      created == DerivedAddress(nextActiveIndex, destinationAddress,
                                FALSE, TRUE, 0, "active")
  IN IF hasAddress(account, destinationAddress)
     THEN LET i == CHOOSE j \in 1..Len(account.derivedAddresses) :
                     /\ account.derivedAddresses[j].address = destinationAddress
                     /\ \A l \in 1..(j - 1) :
                          account.derivedAddresses[l].address # destinationAddress
              existing == [account.derivedAddresses[i] EXCEPT
                             !.role = "active", !.used = TRUE]
          IN [account |-> [account EXCEPT !.derivedAddresses[i] = existing],
              destination |-> existing]
     ELSE [account |->
             [account EXCEPT
                !.derivedAddresses = Append(account.derivedAddresses, created),
                !.addressIndex = Max(account.addressIndex, nextActiveIndex + 1)],
           destination |-> created]

\* activationTransaction with the fee taken twice from the moved amount: the
\* variant that the sweep property of C9 must tell apart.
activationTransactionFeeTwice(fundingUtxos, destination, feeRate) ==
  LET totalValue == SumValues(fundingUtxos)
      fee == estimateInheritanceMultisigFee(Cardinality(fundingUtxos), 1, feeRate)
  IN [kind |-> "activation",
      inputs |-> {Outpoint(u) : u \in fundingUtxos},
      inputValue |-> totalValue,
      outputs |-> << [address |-> destination.address,
                      value |-> totalValue - 2 * fee] >>,
      fee |-> fee,
      signers |-> {"user", "server"}]

\* The sweep transaction of lines 1872-1906.
activationTransaction(fundingUtxos, destination, feeRate) ==
  LET totalValue == SumValues(fundingUtxos)
      fee == estimateInheritanceMultisigFee(Cardinality(fundingUtxos), 1, feeRate)
      movedAmount == totalValue - fee
  IN [kind |-> "activation",
      inputs |-> {Outpoint(u) : u \in fundingUtxos},
      inputValue |-> totalValue,
      outputs |-> << [address |-> destination.address, value |-> movedAmount] >>,
      fee |-> fee,
      signers |-> {"user", "server"}]

ActIdle == [pc |-> "idle"]
SpIdle == [pc |-> "idle"]

Throws(p, op, outcome) ==
  result' = [result EXCEPT ![p] = [op |-> op, outcome |-> outcome]]

\* activatePrecheck without the activation guard: the variant that the
\* refusal property of C1 must tell apart.
activatePrecheckUnguarded(accountRef, feeRate) ==
  IF feeRate <= 0 THEN "InvalidFeeRate" ELSE "proceed"

\* The checks activateInheritanceFunds makes on the stored account before its
\* first chain request: the error it throws, or "proceed".
activatePrecheck(accountRef, feeRate) ==
  IF feeRate <= 0 THEN "InvalidFeeRate"
  ELSE IF isInheritanceAccountActivated(accountRef) THEN "AlreadyActivated"
  ELSE "proceed"

\* activateInheritanceFunds up to its first chain request: the argument's
\* type, the fee rate, loadAccounts, findIndex and the activation guard.
ActivateStart(p, feeRate) ==
  /\ act[p].pc = "idle"
  /\ calls[p].activate < MaxActivations
  /\ calls' = [calls EXCEPT ![p].activate = @ + 1]
  /\ held[p].type = "inheritance"
  /\ LET accounts == loadAccounts(p)
         accountIndex == findIndex(accounts, held[p].id)
         outcome == activatePrecheck(accounts[accountIndex], feeRate)
     IN /\ accountIndex # 0
        /\ IF outcome # "proceed"
           THEN /\ Throws(p, "activateInheritanceFunds", outcome)
                /\ UNCHANGED act
           ELSE /\ act' = [act EXCEPT ![p] =
                             [pc |-> "collect", accounts |-> accounts,
                              accountIndex |-> accountIndex, feeRate |-> feeRate,
                              sources |->
                                fundingSourceAddresses(accounts[accountIndex])]]
                /\ UNCHANGED result
  /\ UNCHANGED <<tip, outputs, txs, nextTxid, store, held, rf, apiFailures, sp, psbts,
                 apiVars, slip, restVars>>

\* collectInheritanceUtxos over the funding addresses (a request that fails
\* answers with no UTXO), then the checks, ensureInheritanceActiveAddress, the
\* PSBT, both signatures and finalizeAllInputs.  The local key signs a funding
\* input only if it is the user's key.
ActivateCollect(p) ==
  /\ act[p].pc = "collect"
  /\ LET a == act[p]
         accountRef == a.accounts[a.accountIndex]
         sources == {x.address : x \in Range(a.sources)}
     IN \E failed \in SUBSET {s \in sources : UtxosAt(s) # {}} :
          LET fundingUtxos ==
                UNION {getAddressUTXOs(s, s \in failed) : s \in sources}
              ensured == ensureInheritanceActiveAddress(accountRef)
              tx == activationTransaction(fundingUtxos, ensured.destination,
                                          a.feeRate)
          IN /\ Cardinality(failed) <= FailuresLeft
             /\ CountFailures(Cardinality(failed))
             /\ IF fundingUtxos = {}
                THEN /\ Throws(p, "activateInheritanceFunds", "NoFunds")
                     /\ act' = [act EXCEPT ![p] = ActIdle]
                ELSE IF tx.outputs[1].value <= DustLimit
                THEN /\ Throws(p, "activateInheritanceFunds", "InsufficientAfterFee")
                     /\ act' = [act EXCEPT ![p] = ActIdle]
                ELSE IF accountRef.localRole # "user"
                THEN /\ Throws(p, "activateInheritanceFunds", "SignFailed")
                     /\ act' = [act EXCEPT ![p] = ActIdle]
                ELSE /\ act' = [act EXCEPT ![p] =
                                  [pc |-> "broadcast",
                                   accounts |->
                                     [a.accounts EXCEPT
                                        ![a.accountIndex] = ensured.account],
                                   accountIndex |-> a.accountIndex,
                                   tx |-> tx]]
                     /\ UNCHANGED result
  /\ UNCHANGED <<tip, outputs, txs, nextTxid, store, held, rf, calls, sp, psbts,
                 apiVars, slip, restVars>>

\* The chain accepts a transaction whose inputs are all unspent.
ChainAccepts(tx) ==
  \A i \in tx.inputs :
    \E o \in outputs : o.txid = i.txid /\ o.vout = i.vout /\ ~o.spent

\* The chain after the transaction: its inputs spent, its outputs to account
\* addresses added as unconfirmed (height 0).
ChainApply(tx) ==
  /\ outputs' =
       {[o EXCEPT !.spent = o.spent \/ Outpoint(o) \in tx.inputs] : o \in outputs}
       \cup {[txid |-> nextTxid, vout |-> j - 1, value |-> tx.outputs[j].value,
              address |-> tx.outputs[j].address, height |-> 0, spent |-> FALSE,
              deposit |-> FALSE] :
               j \in {i \in 1..Len(tx.outputs) :
                        tx.outputs[i].address.pair \in
                          {"funding", "active", "standard"}}}
  /\ txs' = txs \cup {tx @@ [txid |-> nextTxid]}
  /\ nextTxid' = nextTxid + 1

\* broadcastTransaction answers with a txid: the flag is set and the accounts
\* loaded at the start are saved.
ActivateBroadcastOk(p) ==
  /\ act[p].pc = "broadcast"
  /\ ChainAccepts(act[p].tx)
  /\ ChainApply(act[p].tx)
  /\ store' = [store EXCEPT ![p] =
                 [act[p].accounts EXCEPT
                    ![act[p].accountIndex].inheritanceActivated = TRUE]]
  /\ Throws(p, "activateInheritanceFunds", "ok")
  /\ act' = [act EXCEPT ![p] = ActIdle]
  /\ UNCHANGED <<tip, held, rf, calls, apiFailures, sp, psbts,
                 apiVars, slip, restVars>>

\* ActivateBroadcastFail with the accounts saved before the broadcast (the
\* new active address persisted although the sweep failed): the variant that
\* the persistence property of C8 must tell apart.
ActivateBroadcastFailSaved(p) ==
  /\ act[p].pc = "broadcast"
  /\ Throws(p, "activateInheritanceFunds", "BroadcastFailed")
  /\ store' = [store EXCEPT ![p] = act[p].accounts]
  /\ act' = [act EXCEPT ![p] = ActIdle]
  /\ UNCHANGED <<tip, outputs, txs, nextTxid, held, rf, calls, apiFailures, sp, psbts,
                 apiVars, slip, restVars>>

\* broadcastTransaction throws (rejected by the chain, or a network failure).
ActivateBroadcastFail(p) ==
  /\ act[p].pc = "broadcast"
  /\ Throws(p, "activateInheritanceFunds", "BroadcastFailed")
  /\ act' = [act EXCEPT ![p] = ActIdle]
  /\ UNCHANGED <<tip, outputs, txs, nextTxid, store, held, rf, calls, apiFailures, sp, psbts,
                 apiVars, slip, restVars>>

\* ---------------------------------------------------------- co-signed spend
\* An API answer's UTXOs as an array (ordered by txid, vout).
RECURSIVE SeqOfUtxos(_)
SeqOfUtxos(S) ==
  IF S = {} THEN <<>>
  ELSE LET first == CHOOSE x \in S :
                      \A y \in S : x.txid * 4 + x.vout <= y.txid * 4 + y.vout
       IN <<first>> \o SeqOfUtxos(S \ {first})

\* collectInheritanceUtxos(account, "active", true): allUtxos, address by
\* address in stored order; `failed` are the addresses whose request fails.
RECURSIVE collectInheritanceUtxos(_, _)
collectInheritanceUtxos(sources, failed) ==
  IF sources = <<>> THEN <<>>
  ELSE SeqOfUtxos(getAddressUTXOs(Head(sources).address,
                                  Head(sources).address \in failed))
         \o collectInheritanceUtxos(Tail(sources), failed)

\* sortByValue leaving the API's order: the variant that the selection
\* property of C15 must tell apart.
sortByValueApiOrder(s) == s

\* allUtxos.sort((a, b) => b.value - a.value): stable, largest first.
RECURSIVE InsertByValue(_, _)
InsertByValue(sorted, x) ==
  IF sorted = <<>> THEN <<x>>
  ELSE IF x.value > sorted[Len(sorted)].value
       THEN Append(InsertByValue(SubSeq(sorted, 1, Len(sorted) - 1), x),
                   sorted[Len(sorted)])
       ELSE Append(sorted, x)

RECURSIVE sortByValue(_)
sortByValue(s) ==
  IF s = <<>> THEN <<>>
  ELSE InsertByValue(sortByValue(SubSeq(s, 1, Len(s) - 1)), s[Len(s)])

SumSeq(s, n) == SumValues({[k |-> i, value |-> s[i].value] : i \in 1..n})

\* The selection loop: how many of the sorted UTXOs it has pushed when it
\* breaks (enough for amount + fee with or without change) or runs out.
RECURSIVE selectedCount(_, _, _, _)
selectedCount(allUtxos, n, amountSats, feeRate) ==
  IF n >= Len(allUtxos) THEN Len(allUtxos)
  ELSE IF \/ SumSeq(allUtxos, n) >=
               amountSats + estimateInheritanceMultisigFee(n, 2, feeRate)
          \/ SumSeq(allUtxos, n) >=
               amountSats + estimateInheritanceMultisigFee(n, 1, feeRate)
       THEN n
       ELSE selectedCount(allUtxos, n + 1, amountSats, feeRate)

\* Lines 1645-1685: selection, fee and change of the spend.
spendPlan(allUtxos, amountSats, feeRate) ==
  LET n == selectedCount(allUtxos, 1, amountSats, feeRate)
      selectedValue == SumSeq(allUtxos, n)
      feeWithChange == estimateInheritanceMultisigFee(n, 2, feeRate)
      addChangeOutput == selectedValue - amountSats - feeWithChange >= DustLimit
      fee == IF addChangeOutput THEN feeWithChange
             ELSE estimateInheritanceMultisigFee(n, 1, feeRate)
  IN [selected |-> {allUtxos[i] : i \in 1..n},
      selectedValue |-> selectedValue,
      fee |-> fee,
      change |-> selectedValue - amountSats - fee,
      addChangeOutput |-> addChangeOutput]

\* getPrimaryStandardChangeAddress(accounts, masterKey): the accounts after the
\* call and the address; index 0 when there is no standard account (it throws).
getPrimaryStandardChangeAddress(accounts) ==
  LET standard == {i \in 1..Len(accounts) : accounts[i].type = "standard"}
      primaryIndex == IF standard = {} THEN 0 ELSE MinOf(standard)
      primaryAccount == accounts[primaryIndex]
      usedReceiveIndexes ==
        {a.index : a \in {x \in Range(primaryAccount.derivedAddresses) : ~x.change}}
      maxReceiveIndex ==
        IF usedReceiveIndexes # {} THEN MaxOf(usedReceiveIndexes) ELSE -1
      nextReceiveIndex == Max(primaryAccount.addressIndex, maxReceiveIndex + 1)
      changeAddress == deriveTaprootAddress(nextReceiveIndex, 0)
      marked ==
        [i \in 1..Len(primaryAccount.derivedAddresses) |->
           IF /\ primaryAccount.derivedAddresses[i].address = changeAddress
              /\ \A j \in 1..(i - 1) :
                   primaryAccount.derivedAddresses[j].address # changeAddress
           THEN [primaryAccount.derivedAddresses[i] EXCEPT !.used = TRUE]
           ELSE primaryAccount.derivedAddresses[i]]
      addresses ==
        IF hasAddress(primaryAccount, changeAddress) THEN marked
        ELSE Append(primaryAccount.derivedAddresses,
                    DerivedAddress(nextReceiveIndex, changeAddress, FALSE, TRUE,
                                   0, "none"))
  IN IF primaryIndex = 0
     THEN [index |-> 0, accounts |-> accounts, address |-> NoAddress]
     ELSE [index |-> primaryIndex,
           accounts |->
             [accounts EXCEPT
                ![primaryIndex].derivedAddresses = addresses,
                ![primaryIndex].addressIndex =
                   Max(primaryAccount.addressIndex, nextReceiveIndex + 1)],
           address |-> changeAddress]

\* buildOutcome without the test of the change: the variant that the funding
\* property of C14 must tell apart.
buildOutcomeUnchecked(allUtxos, plan) ==
  IF allUtxos = <<>> THEN "NoUtxos" ELSE "proceed"

\* The error thrown between the UTXO collection and the construction of the
\* transaction (no UTXO; change < 0 after selection), or "proceed".
buildOutcome(allUtxos, plan) ==
  IF allUtxos = <<>> THEN "NoUtxos"
  ELSE IF plan.change < 0 THEN "InsufficientFunds"
  ELSE "proceed"

\* createPrecheck without Number.isInteger: the variant that the
\* input-rejection property of C17 must tell apart.
createPrecheckLoose(accountRef, recipientAddress, amountSats, feeRate) ==
  IF ~isInheritanceAccountActivated(accountRef) THEN "NotActivated"
  ELSE IF ~accountRef.inheritanceStatus.requiresMultisig THEN "MultisigNotAvailable"
  ELSE IF NotPositive(amountSats) THEN "InvalidAmount"
  ELSE IF ~NumberIsFinite(feeRate) \/ NotPositive(feeRate) THEN "InvalidFeeRate"
  ELSE IF toOutputScriptThrows(recipientAddress) THEN "InvalidAddress"
  ELSE "proceed"

\* The checks createInheritancePartiallySignedTransaction makes on the stored
\* account and its arguments before its first await: the error, or "proceed".
createPrecheck(accountRef, recipientAddress, amountSats, feeRate) ==
  IF ~isInheritanceAccountActivated(accountRef) THEN "NotActivated"
  ELSE IF ~accountRef.inheritanceStatus.requiresMultisig THEN "MultisigNotAvailable"
  ELSE IF ~NumberIsInteger(amountSats) \/ NotPositive(amountSats)
  THEN "InvalidAmount"
  ELSE IF ~NumberIsFinite(feeRate) \/ NotPositive(feeRate) THEN "InvalidFeeRate"
  ELSE IF toOutputScriptThrows(recipientAddress) THEN "InvalidAddress"
  ELSE "proceed"

\* createInheritancePartiallySignedTransaction up to its first await.  A fee
\* rate that passes the checks is a whole number of sat/vB here.
CreateStart(p, recipientAddress, amountSats, feeRate) ==
  /\ sp[p].pc = "idle"
  /\ calls[p].create < MaxSpendCalls
  /\ calls' = [calls EXCEPT ![p].create = @ + 1]
  /\ held[p].type = "inheritance"
  /\ LET accounts == loadAccounts(p)
         accountIndex == findIndex(accounts, held[p].id)
         outcome == createPrecheck(accounts[accountIndex], recipientAddress,
                                   amountSats, feeRate)
     IN /\ accountIndex # 0
        /\ IF outcome # "proceed"
           THEN /\ Throws(p, "createInheritancePartiallySignedTransaction", outcome)
                /\ UNCHANGED sp
           ELSE /\ sp' = [sp EXCEPT ![p] =
                            [pc |-> "collect", accounts |-> accounts,
                             accountIndex |-> accountIndex,
                             recipientAddress |-> recipientAddress,
                             amountSats |-> amountSats.value,
                             feeRate |-> feeRate.value]]
                /\ UNCHANGED result
  /\ UNCHANGED <<tip, outputs, txs, nextTxid, store, held, rf, act, apiFailures,
                 psbts,
                 apiVars, slip, restVars>>

\* The rest of createInheritancePartiallySignedTransaction: the UTXOs of the
\* active addresses, selection, outputs, the local signature, saveAccounts of
\* the array loaded at the start, and the returned PSBT.
CreateFinish(p) ==
  /\ sp[p].pc = "collect"
  /\ LET c == sp[p]
         accountRef == c.accounts[c.accountIndex]
         sources == activeSourceAddresses(accountRef)
         funded == {x.address : x \in {y \in Range(sources) : UtxosAt(y.address) # {}}}
     IN \E failed \in SUBSET funded :
          LET allUtxos == sortByValue(collectInheritanceUtxos(sources, failed))
              plan == spendPlan(allUtxos, c.amountSats, c.feeRate)
              withChange == plan.addChangeOutput /\ plan.change > 0
              primary == getPrimaryStandardChangeAddress(c.accounts)
              psbt ==
                [kind |-> "spend",
                 inputs |-> {Outpoint(u) : u \in plan.selected},
                 inputValue |-> plan.selectedValue,
                 outputs |->
                   << [address |-> c.recipientAddress, value |-> c.amountSats] >>
                   \o (IF withChange
                       THEN << [address |-> primary.address, value |-> plan.change] >>
                       ELSE <<>>),
                 fee |-> plan.fee,
                 signers |-> {accountRef.localRole}]
          IN /\ Cardinality(failed) <= FailuresLeft
             /\ CountFailures(Cardinality(failed))
             /\ sp' = [sp EXCEPT ![p] = SpIdle]
             /\ IF buildOutcome(allUtxos, plan) # "proceed"
                THEN /\ Throws(p, "createInheritancePartiallySignedTransaction",
                               buildOutcome(allUtxos, plan))
                     /\ UNCHANGED <<store, psbts>>
                ELSE IF withChange /\ primary.index = 0
                THEN /\ Throws(p, "createInheritancePartiallySignedTransaction",
                               "NoStandardAccount")
                     /\ UNCHANGED <<store, psbts>>
                ELSE /\ store' = [store EXCEPT ![p] =
                                    IF withChange THEN primary.accounts
                                    ELSE c.accounts]
                     /\ psbts' = psbts \cup {psbt}
                     /\ result' = [result EXCEPT ![p] =
                          [op |-> "createInheritancePartiallySignedTransaction",
                           outcome |-> "ok", fee |-> plan.fee,
                           changeAmount |-> Max(plan.change, 0),
                           changeAddress |->
                             IF withChange THEN primary.address ELSE NoAddress]]
  /\ UNCHANGED <<tip, outputs, txs, nextTxid, held, rf, act, calls,
                 apiVars, slip, restVars>>

\* completeOutcome without the lookup of the inputs: the variant that the
\* unrecognized-input property of C12 must tell apart.
completeOutcomeUnchecked(activated, utxoLookup, psbt, localRole) ==
  IF ~activated THEN "NotActivated"
  ELSE IF utxoLookup = {} THEN "NoUtxos"
  ELSE IF psbt.signers \cup {localRole} # Parties THEN "CannotFinalize"
  ELSE "proceed"

\* completeOutcome with finalizeAllInputs accepting one key's signatures: the
\* variant that the two-signature property of C13 must tell apart.
completeOutcomeOneKey(activated, utxoLookup, psbt, localRole) ==
  IF ~activated THEN "NotActivated"
  ELSE IF utxoLookup = {} THEN "NoUtxos"
  ELSE IF ~(psbt.inputs \subseteq utxoLookup) THEN "ForeignInput"
  ELSE "proceed"

\* The error completeInheritanceTransactionFromPsbt throws before the
\* broadcast, in the order of the code, or "proceed": the activation check,
\* the empty lookup, an input that is not in the lookup, and
\* finalizeAllInputs, which needs the signatures of both keys of the 2-of-2.
completeOutcome(activated, utxoLookup, psbt, localRole) ==
  IF ~activated THEN "NotActivated"
  ELSE IF utxoLookup = {} THEN "NoUtxos"
  ELSE IF ~(psbt.inputs \subseteq utxoLookup) THEN "ForeignInput"
  ELSE IF psbt.signers \cup {localRole} # Parties THEN "CannotFinalize"
  ELSE "proceed"

\* completeInheritanceTransactionFromPsbt(mnemonic, held[p], psbt) up to the
\* broadcast: the activation check on the stored account, the UTXO lookup over
\* its active addresses, the local signature on every input and
\* finalizeAllInputs.
CompleteSign(p, psbt) ==
  /\ sp[p].pc = "idle"
  /\ calls[p].complete < MaxSpendCalls
  /\ calls' = [calls EXCEPT ![p].complete = @ + 1]
  /\ held[p].type = "inheritance"
  /\ LET accounts == loadAccounts(p)
         accountIndex == findIndex(accounts, held[p].id)
         accountRef == accounts[accountIndex]
         activated == isInheritanceAccountActivated(accountRef)
         sources == SelectSeq(accountRef.derivedAddresses, isActiveInheritanceAddress)
         funded == IF activated
                   THEN {x.address : x \in {y \in Range(sources) :
                                              UtxosAt(y.address) # {}}}
                   ELSE {}
         op == "completeInheritanceTransactionFromPsbt"
     IN /\ accountIndex # 0
        /\ \E failed \in SUBSET funded :
             LET utxoLookup ==
                   {Outpoint(u) :
                      u \in UNION {getAddressUTXOs(a.address, a.address \in failed) :
                                     a \in Range(sources)}}
                 outcome == completeOutcome(activated, utxoLookup, psbt,
                                            accountRef.localRole)
             IN /\ Cardinality(failed) <= FailuresLeft
                /\ CountFailures(Cardinality(failed))
                /\ IF outcome # "proceed"
                   THEN Throws(p, op, outcome) /\ UNCHANGED sp
                   ELSE /\ sp' = [sp EXCEPT ![p] =
                                    [pc |-> "broadcast",
                                     tx |-> [psbt EXCEPT !.signers =
                                               @ \cup {accountRef.localRole}]]]
                        /\ UNCHANGED result
  /\ UNCHANGED <<tip, outputs, txs, nextTxid, store, held, rf, act, psbts,
                 apiVars, slip, restVars>>

\* broadcastTransaction answers with a txid; nothing is saved.
CompleteBroadcastOk(p) ==
  /\ sp[p].pc = "broadcast"
  /\ ChainAccepts(sp[p].tx)
  /\ ChainApply(sp[p].tx @@ [by |-> p])
  /\ Throws(p, "completeInheritanceTransactionFromPsbt", "ok")
  /\ sp' = [sp EXCEPT ![p] = SpIdle]
  /\ UNCHANGED <<tip, store, held, rf, act, calls, apiFailures, psbts,
                 apiVars, slip, restVars>>

\* broadcastTransaction throws.
CompleteBroadcastFail(p) ==
  /\ sp[p].pc = "broadcast"
  /\ Throws(p, "completeInheritanceTransactionFromPsbt", "BroadcastFailed")
  /\ sp' = [sp EXCEPT ![p] = SpIdle]
  /\ UNCHANGED <<tip, outputs, txs, nextTxid, store, held, rf, act, calls,
                 apiFailures, psbts,
                 apiVars, slip, restVars>>

\* sendBitcoin(mnemonic, held[p], ...) on an inheritance account: it throws
\* before anything else.
SendBitcoin(p) ==
  /\ held[p].type = "inheritance"
  /\ Throws(p, "sendBitcoin", "NotImplemented")
  /\ UNCHANGED <<tip, outputs, txs, nextTxid, store, held, rf, act, calls,
                 apiFailures, sp, psbts, apiVars, slip, restVars>>

\* ------------------------------------------- sendBitcoin, standard account
\* The selection loop of sendBitcoin (the loop of selectedCount with the
\* taproot fee estimate).
RECURSIVE selectedCountTaproot(_, _, _, _)
selectedCountTaproot(allUtxos, n, amountSats, feeRate) ==
  IF n >= Len(allUtxos) THEN Len(allUtxos)
  ELSE IF \/ SumSeq(allUtxos, n) >=
               amountSats + estimateTaprootFee(n, 2, feeRate)
          \/ SumSeq(allUtxos, n) >=
               amountSats + estimateTaprootFee(n, 1, feeRate)
       THEN n
       ELSE selectedCountTaproot(allUtxos, n + 1, amountSats, feeRate)

\* Selection, fee and change of sendBitcoin.
sendPlan(allUtxos, amountSats, feeRate) ==
  LET n == selectedCountTaproot(allUtxos, 1, amountSats, feeRate)
      selectedValue == SumSeq(allUtxos, n)
      feeWithChange == estimateTaprootFee(n, 2, feeRate)
      addChangeOutput == selectedValue - amountSats - feeWithChange >= DustLimit
      fee == IF addChangeOutput THEN feeWithChange
             ELSE estimateTaprootFee(n, 1, feeRate)
  IN [selected |-> {allUtxos[i] : i \in 1..n},
      selectedValue |-> selectedValue,
      fee |-> fee,
      change |-> selectedValue - amountSats - fee,
      addChangeOutput |-> addChangeOutput]

\* The change address sendBitcoin settles on: the unused change address of
\* lowest index, or a new one at the next change index, pushed to the
\* account; `at` is its position in derivedAddresses.
selectedChangeAddress(accountRef) ==
  LET addresses == accountRef.derivedAddresses
      unused == {i \in 1..Len(addresses) : addresses[i].change /\ ~addresses[i].used}
      changeIndexes == {a.index : a \in {x \in Range(addresses) : x.change}}
      nextChangeIndex == IF changeIndexes # {} THEN MaxOf(changeIndexes) + 1 ELSE 0
  IN IF unused # {}
     THEN [account |-> accountRef,
           at |-> CHOOSE i \in unused :
                    \A j \in unused :
                      \/ addresses[i].index < addresses[j].index
                      \/ (addresses[i].index = addresses[j].index /\ i <= j)]
     ELSE [account |->
             [accountRef EXCEPT
                !.derivedAddresses =
                   Append(addresses,
                     DerivedAddress(nextChangeIndex,
                                    deriveTaprootAddress(nextChangeIndex, 1),
                                    TRUE, FALSE, 0, "none"))],
           at |-> Len(addresses) + 1]

\* The checks sendBitcoin makes on a standard account before its first await.
sendPrecheck(accountIndex, recipientAddress, amountSats, feeRate) ==
  IF accountIndex = 0 THEN "NotFound"
  ELSE IF ~NumberIsInteger(amountSats) \/ NotPositive(amountSats)
  THEN "InvalidAmount"
  ELSE IF ~NumberIsFinite(feeRate) \/ NotPositive(feeRate) THEN "InvalidFeeRate"
  ELSE IF toOutputScriptThrows(recipientAddress) THEN "InvalidAddress"
  ELSE "proceed"

\* sendBitcoin(mnemonic, the standard account, ...) up to its first await.
SendStart(p, recipientAddress, amountSats, feeRate) ==
  /\ sp[p].pc = "idle"
  /\ calls[p].send < MaxSpendCalls
  /\ calls' = [calls EXCEPT ![p].send = @ + 1]
  /\ LET accounts == loadAccounts(p)
         accountIndex == findIndex(accounts, StdId)
         outcome == sendPrecheck(accountIndex, recipientAddress, amountSats, feeRate)
     IN IF outcome # "proceed"
        THEN Throws(p, "sendBitcoin", outcome) /\ UNCHANGED sp
        ELSE /\ sp' = [sp EXCEPT ![p] =
                         [pc |-> "sendCollect", accounts |-> accounts,
                          accountIndex |-> accountIndex,
                          recipientAddress |-> recipientAddress,
                          amountSats |-> amountSats.value,
                          feeRate |-> feeRate.value]]
             /\ UNCHANGED result
  /\ UNCHANGED <<tip, outputs, txs, nextTxid, store, held, rf, act, apiFailures,
                 psbts,
                 apiVars, slip, restVars>>

\* The UTXOs of every address of the account, selection, the change address,
\* the outputs, the signatures and finalizeAllInputs.
SendBuild(p) ==
  /\ sp[p].pc = "sendCollect"
  /\ LET c == sp[p]
         accountRef == c.accounts[c.accountIndex]
         sources == accountRef.derivedAddresses
         funded == {x.address : x \in {y \in Range(sources) : UtxosAt(y.address) # {}}}
     IN \E failed \in SUBSET funded :
          LET allUtxos == sortByValue(collectInheritanceUtxos(sources, failed))
              plan == sendPlan(allUtxos, c.amountSats, c.feeRate)
              outcome == buildOutcome(allUtxos, plan)
              withChange == plan.addChangeOutput /\ plan.change > 0
              chosen == selectedChangeAddress(accountRef)
              changeAddress == chosen.account.derivedAddresses[chosen.at].address
              accountAfter ==
                IF withChange
                THEN [chosen.account EXCEPT !.derivedAddresses[chosen.at].used = TRUE]
                ELSE chosen.account
              tx ==
                [kind |-> "send",
                 inputs |-> {Outpoint(u) : u \in plan.selected},
                 inputValue |-> plan.selectedValue,
                 outputs |->
                   << [address |-> c.recipientAddress, value |-> c.amountSats] >>
                   \o (IF withChange
                       THEN << [address |-> changeAddress, value |-> plan.change] >>
                       ELSE <<>>),
                 fee |-> plan.fee,
                 signers |-> {p}]
          IN /\ Cardinality(failed) <= FailuresLeft
             /\ CountFailures(Cardinality(failed))
             /\ IF outcome # "proceed"
                THEN /\ Throws(p, "sendBitcoin", outcome)
                     /\ sp' = [sp EXCEPT ![p] = SpIdle]
                ELSE /\ sp' = [sp EXCEPT ![p] =
                                 [pc |-> "sendBroadcast",
                                  accounts |-> [c.accounts EXCEPT
                                                  ![c.accountIndex] = accountAfter],
                                  tx |-> tx]]
                     /\ UNCHANGED result
  /\ UNCHANGED <<tip, outputs, txs, nextTxid, store, held, rf, act, calls, psbts,
                 apiVars, slip, restVars>>

\* broadcastTransaction answers with a txid; the accounts loaded at the start,
\* with the change address, are saved.
SendBroadcastOk(p) ==
  /\ sp[p].pc = "sendBroadcast"
  /\ ChainAccepts(sp[p].tx)
  /\ ChainApply(sp[p].tx @@ [by |-> p])
  /\ store' = [store EXCEPT ![p] = sp[p].accounts]
  /\ Throws(p, "sendBitcoin", "ok")
  /\ sp' = [sp EXCEPT ![p] = SpIdle]
  /\ UNCHANGED <<tip, held, rf, act, calls, apiFailures, psbts,
                 apiVars, slip, restVars>>

\* broadcastTransaction throws; nothing is saved.
SendBroadcastFail(p) ==
  /\ sp[p].pc = "sendBroadcast"
  /\ Throws(p, "sendBitcoin", "BroadcastFailed")
  /\ sp' = [sp EXCEPT ![p] = SpIdle]
  /\ UNCHANGED <<tip, outputs, txs, nextTxid, store, held, rf, act, calls,
                 apiFailures, psbts,
                 apiVars, slip, restVars>>

\* ------------------- createInheritanceAccount, importInheritanceAccountShare
\* createInheritanceAccount(mnemonic, name, counterparty, localRole,
\* conditions, accountIdOverride) with a well-formed counterparty: the stored
\* account of that id is returned if there is one, else the new account is
\* pushed and saved.  No chain request is awaited: one step.
createInheritanceAccount(accounts, name, localRole, conditions, accountId) ==
  IF findIndex(accounts, accountId) # 0 THEN accounts
  ELSE Append(accounts,
         [NewInheritanceAccount(localRole, conditions) EXCEPT
            !.id = accountId, !.name = name])

CreateInheritanceAccount(p, name, localRole, conditions, accountId) ==
  /\ store' = [store EXCEPT ![p] =
                 createInheritanceAccount(loadAccounts(p), name, localRole,
                                          conditions, accountId)]
  /\ Throws(p, "createInheritanceAccount", "ok")
  /\ UNCHANGED <<tip, outputs, txs, nextTxid, held, rf, act, calls, apiFailures,
                 sp, psbts,
                 apiVars, slip, restVars>>

\* A share payload as parsed from the pasted JSON.
SharePayload(type, sharedByRole, spendingConditions, sharedAccountId) ==
  [type |-> type, sharedByRole |-> sharedByRole,
   spendingConditions |-> spendingConditions,
   sharedAccountId |-> sharedAccountId]

\* importInheritanceAccountShare(mnemonic, rawShare) for a payload without
\* `participants`: the type and the sharing role are checked, the local role
\* is the other one, and the payload's conditions go to
\* createInheritanceAccount as they are.
ImportInheritanceAccountShare(p, payload) ==
  /\ IF payload.type # "inheritance-account"
     THEN Throws(p, "importInheritanceAccountShare", "UnknownFormat")
            /\ UNCHANGED store
     ELSE IF payload.sharedByRole \notin {"user", "heir"}
     THEN Throws(p, "importInheritanceAccountShare", "InvalidRole")
            /\ UNCHANGED store
     ELSE /\ store' = [store EXCEPT ![p] =
                         createInheritanceAccount(loadAccounts(p), "Inheritance",
                           IF payload.sharedByRole = "user" THEN "heir" ELSE "user",
                           payload.spendingConditions, payload.sharedAccountId)]
          /\ Throws(p, "importInheritanceAccountShare", "ok")
  /\ UNCHANGED <<tip, outputs, txs, nextTxid, held, rf, act, calls, apiFailures,
                 sp, psbts,
                 apiVars, slip, restVars>>

\* ------------------------------------------------- renameAccount, deleteAccount
\* Names the user types; String.prototype.trim of each.
Names == {" ", "Savings"}
trim(name) == IF name = " " THEN "" ELSE name

\* renameAccount(accountId, newName): synchronous, one step.
RenameAccount(p, accountId, newName) ==
  LET normalizedName == trim(newName)
      accounts == loadAccounts(p)
      accountIndex == findIndex(accounts, accountId)
  IN /\ IF normalizedName = ""
        THEN Throws(p, "renameAccount", "EmptyName") /\ UNCHANGED store
        ELSE IF accountIndex = 0
        THEN Throws(p, "renameAccount", "NotFound") /\ UNCHANGED store
        ELSE /\ store' = [store EXCEPT ![p] =
                            [accounts EXCEPT ![accountIndex].name = normalizedName]]
             /\ Throws(p, "renameAccount", "ok")
     /\ UNCHANGED <<tip, outputs, txs, nextTxid, held, rf, act, calls, apiFailures,
                    sp, psbts,
                 apiVars, slip, restVars>>

\* deleteAccount(accountId): synchronous, one step.
DeleteAccount(p, accountId) ==
  LET accounts == loadAccounts(p)
      nextAccounts == SelectSeq(accounts, LAMBDA item : item.id # accountId)
  IN /\ IF Len(nextAccounts) = Len(accounts)
        THEN Throws(p, "deleteAccount", "NotFound") /\ UNCHANGED store
        ELSE /\ store' = [store EXCEPT ![p] = nextAccounts]
             /\ Throws(p, "deleteAccount", "ok")
     /\ UNCHANGED <<tip, outputs, txs, nextTxid, held, rf, act, calls, apiFailures,
                    sp, psbts,
                 apiVars, slip, restVars>>

\* ------------------------------------------------------------- environment
\* Addresses a payer can know: the funding receive addresses the wallet has
\* shown, and the first active address.
PayableAddresses ==
  {a.address : a \in {x \in UNION {Range(held[p].derivedAddresses) : p \in Parties} :
                        x.role = "funding" /\ ~x.change}}
  \cup {deriveInheritanceAddressFromXpubs("active", 0, 0)}

Deposits == {o \in outputs : o.deposit}

\* Somebody pays to an address of the account (unconfirmed at first).
Deposit(address, value) ==
  /\ Cardinality(Deposits) < MaxDeposits
  /\ address \in PayableAddresses
  /\ outputs' = outputs \cup
       {[txid |-> nextTxid, vout |-> 0, value |-> value, address |-> address,
         height |-> 0, spent |-> FALSE, deposit |-> TRUE]}
  /\ nextTxid' = nextTxid + 1
  /\ UNCHANGED <<tip, txs, store, held, rf, act, result, calls, apiFailures, sp, psbts,
                 apiVars, slip, restVars>>

\* A block is mined: every unconfirmed output is confirmed in it.
Mine ==
  /\ tip < MaxTip
  /\ tip' = tip + 1
  /\ outputs' = {[o EXCEPT !.height = IF o.height = 0 THEN tip + 1 ELSE o.height] :
                   o \in outputs}
  /\ UNCHANGED <<txs, nextTxid, store, held, rf, act, result, calls, apiFailures, sp, psbts,
                 apiVars, slip, restVars>>

\* ------------------------------------------------------- chain-data client
\* The module state of the API client and the calls made on it.  A caller is
\* one chain of awaits in the wallet or the UI: it has one call in progress.
Callers == {"c1", "c2"}
NoCaller == "none"

\* The read queries modelled, with the request key fetchTextCached or
\* fetchJsonCached builds for them and the options they pass.
Queries == {"getCurrentBlockHeight", "getAddressUTXOs"}

QueryOptions(query) ==
  CASE query = "getCurrentBlockHeight" ->
         [requestKey |-> "text:/blocks/tip/height", cacheMs |-> 3000, retries |-> 2]
    [] query = "getAddressUTXOs" ->
         [requestKey |-> "json:/address/a/utxo", cacheMs |-> 5000, retries |-> 2]

RequestKeys == {QueryOptions(query).requestKey : query \in Queries}

\* What a promise settles with: the data of the n-th answer, or an error.
Data(n) == [kind |-> "data", data |-> n]
Thrown(error) == [kind |-> error, data |-> 0]
DefaultValue == [kind |-> "default", data |-> 0]

\* The value a call hands to its caller: the read queries catch every error
\* and return their empty, zero or default value; broadcastTransaction
\* rethrows.
returnedOf(op, outcome) ==
  IF op = "broadcastTransaction" \/ outcome.kind = "data" THEN outcome
  ELSE DefaultValue

ApiIdle ==
  [pc |-> "idle", op |-> "none", requestKey |-> "none", cacheMs |-> 0,
   retries |-> 0, attempt |-> 0, wakeAt |-> 0, waits |-> <<>>,
   joined |-> NoCaller, cooled |-> FALSE, calls |-> 0, base |-> "none"]

NoApiResult ==
  [op |-> "none", outcome |-> Thrown("none"), returned |-> Thrown("none"),
   by |-> "none", attempts |-> 0, waits |-> <<>>, cooled |-> FALSE]

ApiInit ==
  /\ now = 0
  /\ rateLimitUntil = 0
  /\ inFlightRequests = [key \in RequestKeys |-> NoCaller]
  /\ responseCache = [key \in RequestKeys |-> [expiresAt |-> 0, data |-> 0]]
  /\ served = 0
  /\ apiCall = [c \in Callers |-> ApiIdle]
  /\ apiResult = [c \in Callers |-> NoApiResult]

\* getMempoolApiBase(): the API of the active network (production build).
getMempoolApiBase == network

\* inFlightRequests.get(requestKey) that never finds an entry: the variant
\* that the deduplication property of C21 must tell apart.
inFlightLookupNone(requestKey) == NoCaller

\* inFlightRequests.get(requestKey).
inFlightLookup(requestKey) == inFlightRequests[requestKey]

\* The calls made on the client so far.
CallsMade == SumValues({[k |-> c, value |-> apiCall[c].calls] : c \in Callers})

\* The HTTP requests on the wire for a request key.
HttpInFlight(requestKey) ==
  {c \in Callers : apiCall[c].pc = "fetching" /\ apiCall[c].requestKey = requestKey}

\* The call of caller c has ended at once, without a request of its own.
ReturnsAtOnce(c, call, outcome, by) ==
  /\ apiCall' = [apiCall EXCEPT ![c] = [ApiIdle EXCEPT !.calls = call.calls]]
  /\ apiResult' = [apiResult EXCEPT ![c] =
       [op |-> call.op, outcome |-> outcome,
        returned |-> returnedOf(call.op, outcome), by |-> by,
        attempts |-> 0, waits |-> <<>>, cooled |-> call.cooled]]

\* The promise of the request of caller c settles with `outcome`: the finally
\* block of fetchJsonCached/fetchTextCached deletes the in-flight entry of the
\* key, the call returns, and so do the calls that awaited the same promise.
Settles(c, outcome) ==
  LET call == apiCall[c]
      joiners == {j \in Callers : apiCall[j].pc = "joined" /\ apiCall[j].joined = c}
  IN /\ apiCall' = [j \in Callers |->
                      IF j = c \/ j \in joiners
                      THEN [ApiIdle EXCEPT !.calls = apiCall[j].calls]
                      ELSE apiCall[j]]
     /\ apiResult' = [j \in Callers |->
                        IF j = c \/ j \in joiners
                        THEN [op |-> apiCall[j].op, outcome |-> outcome,
                              returned |-> returnedOf(apiCall[j].op, outcome),
                              by |-> IF j = c THEN "request" ELSE "joined",
                              attempts |-> call.attempt + 1, waits |-> call.waits,
                              cooled |-> apiCall[j].cooled]
                        ELSE apiResult[j]]
     /\ inFlightRequests' =
          IF call.requestKey \in RequestKeys
          THEN [inFlightRequests EXCEPT ![call.requestKey] = NoCaller]
          ELSE inFlightRequests

\* A read query, through fetchTextCached or fetchJsonCached up to its first
\* await: the cached answer, the promise already in flight, the refusal of
\* fetchWithRetry during the cooldown, or the first HTTP request.
QueryCall(c, query) ==
  /\ apiCall[c].pc = "idle"
  /\ CallsMade < MaxApiCalls
  /\ LET options == QueryOptions(query)
         requestKey == options.requestKey
         cached == responseCache[requestKey]
         inFlight == inFlightLookup(requestKey)
         call == [ApiIdle EXCEPT !.calls = apiCall[c].calls + 1, !.op = query,
                                 !.requestKey = requestKey,
                                 !.cacheMs = options.cacheMs,
                                 !.retries = options.retries,
                                 !.cooled = rateLimitUntil - now > 0]
     IN IF options.cacheMs > 0 /\ cached.expiresAt > now
        THEN /\ ReturnsAtOnce(c, call, Data(cached.data), "cache")
             /\ UNCHANGED inFlightRequests
        ELSE IF inFlight # NoCaller
        THEN /\ apiCall' = [apiCall EXCEPT ![c] =
                              [call EXCEPT !.pc = "joined", !.joined = inFlight]]
             /\ UNCHANGED <<apiResult, inFlightRequests>>
        ELSE IF rateLimitUntil - now > 0
        THEN /\ ReturnsAtOnce(c, call, Thrown("RateLimitError"), "refused")
             /\ UNCHANGED inFlightRequests
        ELSE /\ apiCall' = [apiCall EXCEPT ![c] =
                              [call EXCEPT !.pc = "fetching",
                                           !.base = getMempoolApiBase]]
             /\ inFlightRequests' = [inFlightRequests EXCEPT ![requestKey] = c]
             /\ UNCHANGED apiResult
  /\ UNCHANGED <<now, rateLimitUntil, responseCache, served, walletVars, slip, restVars>>

\* broadcastTransaction up to its first await: fetchWithRetry("/tx", POST, 1).
BroadcastCall(c) ==
  /\ apiCall[c].pc = "idle"
  /\ CallsMade < MaxApiCalls
  /\ LET call == [ApiIdle EXCEPT !.calls = apiCall[c].calls + 1,
                                 !.op = "broadcastTransaction",
                                 !.retries = 1,
                                 !.cooled = rateLimitUntil - now > 0]
     IN IF rateLimitUntil - now > 0
        THEN ReturnsAtOnce(c, call, Thrown("RateLimitError"), "refused")
        ELSE /\ apiCall' = [apiCall EXCEPT ![c] =
                              [call EXCEPT !.pc = "fetching",
                                           !.base = getMempoolApiBase]]
             /\ UNCHANGED apiResult
  /\ UNCHANGED <<now, rateLimitUntil, inFlightRequests, responseCache, served,
                 walletVars, slip, restVars>>

\* backoffMs without the doubling: the variant that the backoff property of
\* C23 must tell apart.
backoffMsFlat(attempt) == 250

\* The wait of fetchWithRetry after the failed attempt number `attempt`.
backoffMs(attempt) == 250 * 2 ^ attempt

\* The fetch of caller c ends: with a response that is ok, 429 or another HTTP
\* error, or with a thrown network failure, and the retry loop of
\* fetchWithRetry takes its next turn.
HttpRespond(c, response) ==
  /\ apiCall[c].pc = "fetching"
  /\ LET call == apiCall[c] IN
     CASE response = "ok" ->
            /\ served < MaxServed
            /\ served' = served + 1
            /\ responseCache' =
                 IF call.cacheMs > 0
                 THEN [responseCache EXCEPT ![call.requestKey] =
                         [expiresAt |-> now + call.cacheMs, data |-> served + 1]]
                 ELSE responseCache
            /\ origins' = Append(origins, call.base)
            /\ Settles(c, Data(served + 1))
            /\ UNCHANGED rateLimitUntil
       [] response = "429" ->
            /\ rateLimitUntil' = now + RateLimitCooldownMs
            /\ Settles(c, Thrown("RateLimitError"))
            /\ UNCHANGED <<responseCache, served, origins>>
       [] response = "error status" ->
            /\ Settles(c, Thrown("HttpError"))
            /\ UNCHANGED <<rateLimitUntil, responseCache, served, origins>>
       [] response = "network failure" ->
            /\ IF call.attempt < call.retries
               THEN /\ apiCall' = [apiCall EXCEPT ![c] =
                         [call EXCEPT !.pc = "sleeping",
                                      !.wakeAt = now + backoffMs(call.attempt),
                                      !.waits = Append(@, backoffMs(call.attempt))]]
                    /\ UNCHANGED <<apiResult, inFlightRequests>>
               ELSE Settles(c, Thrown("NetworkError"))
            /\ UNCHANGED <<rateLimitUntil, responseCache, served, origins>>
  /\ UNCHANGED <<now, walletVars, slip, sharing, network, walletFile>>

Responses == {"ok", "429", "error status", "network failure"}

\* The timer of sleep() fires, at its time or later, and the loop of
\* fetchWithRetry sends the next attempt.
Wake(c) ==
  /\ apiCall[c].pc = "sleeping"
  /\ now' = Max(now, apiCall[c].wakeAt)
  /\ apiCall' = [apiCall EXCEPT ![c] =
                   [@ EXCEPT !.pc = "fetching", !.attempt = @ + 1,
                             !.base = getMempoolApiBase]]
  /\ UNCHANGED <<rateLimitUntil, inFlightRequests, responseCache, served,
                 apiResult, walletVars, slip, restVars>>

\* Time passes.
Elapse(ms) ==
  /\ now + ms <= MaxNow
  /\ now' = now + ms
  /\ UNCHANGED <<rateLimitUntil, inFlightRequests, responseCache, served,
                 apiCall, apiResult, walletVars, slip, restVars>>

\* handleNetworkChange(nextNetwork): saveActiveNetwork; the page is not
\* reloaded and the client's maps are left as they are.
Networks == {"testnet", "signet"}
SwitchNetwork(nextNetwork) ==
  /\ nextNetwork # network
  /\ network' = nextNetwork
  /\ UNCHANGED <<walletVars, apiVars, slip, sharing, origins, walletFile>>

\* ------------------------------------------------------------ mnemonics
\* JavaScript's bitwise operators, on the non-negative values below 2^31 the
\* code applies them to.
\* ^ and & of the values below 64, and of values of any length by their
\* groups of six binary digits.
RECURSIVE Xor2(_, _)
Xor2(a, b) ==
  IF a = 0 THEN b
  ELSE IF b = 0 THEN a
  ELSE 2 * Xor2(a \div 2, b \div 2) + ((a + b) % 2)

Xor64 == [a \in 0..63 |-> [b \in 0..63 |-> Xor2(a, b)]]

RECURSIVE BitXor(_, _)
BitXor(a, b) ==
  IF a = 0 THEN b
  ELSE IF b = 0 THEN a
  ELSE 64 * BitXor(a \div 64, b \div 64) + Xor64[a % 64][b % 64]

\* a & b, from a + b = (a ^ b) + 2 * (a & b).
BitAnd(a, b) == (a + b - BitXor(a, b)) \div 2

BitOr(a, b) == a + b - BitAnd(a, b)
ShiftLeft(a, k) == a * 2 ^ k
ShiftRight(a, k) == a \div 2 ^ k

\* A value that is returned, or the error that is thrown.
Returns(value) == [error |-> "none", value |-> value]
Throw(error) == [error |-> error, value |-> <<>>]

\* A word of a text: the vocabulary word of an index, in lower case or with
\* upper-case letters, or a text that is no vocabulary word (index Null).
VocabularySize == 1024
Word(index) == [index |-> index, upper |-> FALSE]
UpperCase(w) == [w EXCEPT !.upper = TRUE]
NoWord == [index |-> Null, upper |-> FALSE]
EmptyString == [index |-> Null - 1, upper |-> FALSE]
toLowerCase(w) == [w EXCEPT !.upper = FALSE]

\* SLIP39_WORDLIST[idx] and WORD_TO_INDEX.get(word) (Null for undefined): the
\* list has 1024 distinct lower-case words.
SLIP39_WORDLIST(idx) == Word(idx)
WORD_TO_INDEX(w) == IF w.index \in 0..(VocabularySize - 1) /\ ~w.upper THEN w.index ELSE Null

\* RS1024_GEN, and the char codes of the customization strings.
RS1024_GEN ==
  << 14737472, 29474944, 58949888, 117899776, 235798537,
     470557714, 940076068, 814808136, 565311632, 66318624 >>

charCodes(customization) ==
  IF customization = "shamir" THEN << 115, 104, 97, 109, 105, 114 >>
  ELSE << 115, 104, 97, 109, 105, 114, 95, 101, 120, 116, 101, 110, 100, 97,
          98, 108, 101 >>

\* The inner loop of rs1024Polymod: chk ^= ((b >> i) & 1) ? RS1024_GEN[i] : 0.
RECURSIVE polymodFeedback(_, _, _)
polymodFeedback(chk, b, i) ==
  IF i >= 10 THEN chk
  ELSE polymodFeedback(
         BitXor(chk, IF BitAnd(ShiftRight(b, i), 1) = 1 THEN RS1024_GEN[i + 1] ELSE 0),
         b, i + 1)

\* What the inner loop adds to chk for every b = chk >> 20.
feedback == [b \in 0..1023 |-> polymodFeedback(0, b, 0)]

\* The loop body without the generator feedback: the variant that the
\* substitution property of C29 must tell apart.
polymodStepPlain(chk, v) == BitXor(ShiftLeft(chk % 1048576, 10), v)

\* The loop body of rs1024Polymod for the value v; chk & 0xFFFFF is the
\* remainder of chk by 2^20.
polymodStep(chk, v) ==
  BitXor(BitXor(ShiftLeft(chk % 1048576, 10), v), feedback[ShiftRight(chk, 20)])

\* for (const v of values), from chk = 1.
rs1024Polymod(values) ==
  LET loop[chk \in Nat, k \in Nat] ==
        IF k > Len(values) THEN chk ELSE loop[polymodStep(chk, values[k]), k + 1]
  IN loop[1, 1]

rs1024CreateChecksum(customization, data) ==
  LET polymod == BitXor(rs1024Polymod(charCodes(customization) \o data \o <<0, 0, 0>>), 1)
  IN << BitAnd(ShiftRight(polymod, 20), 1023),
        BitAnd(ShiftRight(polymod, 10), 1023),
        BitAnd(polymod, 1023) >>

rs1024VerifyChecksum(customization, data) ==
  rs1024Polymod(charCodes(customization) \o data) = 1

\* ----- the Feistel cipher
\* pbkdf2(sha256, password, salt, {c, dkLen}) of @noble/hashes is not part of
\* the repository: it is a deterministic function of its arguments that
\* returns dkLen bytes.  slip.prf chooses which function of that kind it is.
RECURSIVE Digest(_, _)
Digest(bytes, k) ==
  IF k > Len(bytes) THEN 0
  ELSE (k * bytes[k] + 3 * Digest(bytes, k + 1)) % 65521

\* The keys PBKDF2-HMAC-SHA256 derives for the calls that the decryption of
\* the first test vector makes, with the passphrase TREZOR and with the empty
\* one.  slip.prf = ReferencePrf is the function with these values.
ReferencePrf == 0
Pbkdf2Sha256 ==
  {
    [password |-> <<3, 84, 82, 69, 90, 79, 82>>,
     salt |-> <<115, 104, 97, 109, 105, 114, 31, 9, 186, 120, 192, 112, 18, 147, 228, 23>>,
     c |-> 2500,
     key |-> <<202, 102, 198, 66, 20, 96, 187, 239>>],
    [password |-> <<2, 84, 82, 69, 90, 79, 82>>,
     salt |-> <<115, 104, 97, 109, 105, 114, 31, 9, 219, 218, 166, 223, 53, 20, 199, 166>>,
     c |-> 2500,
     key |-> <<127, 28, 142, 131, 249, 150, 217, 245>>],
    [password |-> <<1, 84, 82, 69, 90, 79, 82>>,
     salt |-> <<115, 104, 97, 109, 105, 114, 31, 9, 197, 100, 78, 243, 235, 5, 61, 226>>,
     c |-> 2500,
     key |-> <<97, 237, 127, 19, 20, 166, 9, 104>>],
    [password |-> <<0, 84, 82, 69, 90, 79, 82>>,
     salt |-> <<115, 104, 97, 109, 105, 114, 31, 9, 186, 55, 217, 204, 33, 178, 206, 206>>,
     c |-> 2500,
     key |-> <<126, 48, 228, 55, 83, 152, 245, 138>>],
    [password |-> <<3>>,
     salt |-> <<115, 104, 97, 109, 105, 114, 31, 9, 186, 120, 192, 112, 18, 147, 228, 23>>,
     c |-> 2500,
     key |-> <<54, 11, 187, 102, 193, 250, 255, 135>>],
    [password |-> <<2>>,
     salt |-> <<115, 104, 97, 109, 105, 114, 31, 9, 39, 183, 219, 251, 224, 142, 131, 206>>,
     c |-> 2500,
     key |-> <<40, 229, 189, 196, 155, 78, 136, 90>>],
    [password |-> <<1>>,
     salt |-> <<115, 104, 97, 109, 105, 114, 31, 9, 146, 157, 125, 180, 137, 221, 108, 77>>,
     c |-> 2500,
     key |-> <<201, 44, 222, 159, 37, 46, 62, 197>>],
    [password |-> <<0>>,
     salt |-> <<115, 104, 97, 109, 105, 114, 31, 9, 238, 155, 5, 100, 197, 160, 189, 11>>,
     c |-> 2500,
     key |-> <<171, 239, 212, 133, 5, 44, 6, 126>>]
  }

pbkdf2(password, salt, c, dkLen) ==
  LET key == slip.prf * (Digest(password, 1) + 7 * Digest(salt, 1) + (c % 65521))
      known == { e \in Pbkdf2Sha256 :
                   /\ e.password = password
                   /\ e.salt = salt
                   /\ e.c = c
                   /\ Len(e.key) = dkLen }
  IN IF slip.prf = ReferencePrf /\ known # {}
     THEN (CHOOSE e \in known : TRUE).key
     ELSE [j \in 1..dkLen |-> (key + 31 * j) % 256]

ITERATION_COUNT == 10000
ROUND_COUNT == 4

getIterationsPerRound(iterationExponent) ==
  ShiftLeft(ITERATION_COUNT, iterationExponent) \div ROUND_COUNT

\* The salt of the identifier alone, as generateMnemonic builds one and leaves
\* it unused: the variant that the vector of C31 must tell apart.
buildSaltIdentifier(identifier, extendable) ==
  IF extendable THEN <<>>
  ELSE << BitAnd(ShiftRight(identifier, 8), 255), BitAnd(identifier, 255) >>

buildSalt(identifier, extendable) ==
  IF extendable THEN <<>>
  ELSE << 115, 104, 97, 109, 105, 114,
          BitAnd(ShiftRight(identifier, 8), 255), BitAnd(identifier, 255) >>

\* passphrase is the byte sequence TextEncoder gives for it.
feistelRound(round, passphrase, iterationExponent, salt, R) ==
  pbkdf2(<<round>> \o passphrase, salt \o R,
         getIterationsPerRound(iterationExponent), Len(R))

\* The loop of both directions: the rounds in the order given.
RECURSIVE feistelRounds(_, _, _, _, _, _, _)
feistelRounds(L, R, rounds, k, passphrase, iterationExponent, salt) ==
  IF k > Len(rounds) THEN [L |-> L, R |-> R]
  ELSE LET F == feistelRound(rounds[k], passphrase, iterationExponent, salt, R)
           newR == [j \in 1..Len(L) |-> BitXor(L[j], F[j])]
       IN feistelRounds(R, newR, rounds, k + 1, passphrase, iterationExponent, salt)

feistelCipher(data, rounds, passphrase, iterationExponent, identifier, extendable) ==
  IF Len(data) % 2 # 0 THEN Throw("Data length must be even")
  ELSE LET half == Len(data) \div 2
           end == feistelRounds(SubSeq(data, 1, half), SubSeq(data, half + 1, Len(data)),
                                rounds, 1, passphrase, iterationExponent,
                                buildSalt(identifier, extendable))
       IN Returns(end.R \o end.L)

feistelCipherEncrypt(data, passphrase, iterationExponent, identifier, extendable) ==
  feistelCipher(data, <<0, 1, 2, 3>>, passphrase, iterationExponent, identifier,
                extendable)

\* feistelCipherDecrypt with the rounds in the order of encryption: the
\* variant that the round-trip property of C25 must tell apart.
feistelCipherDecryptForward(data, passphrase, iterationExponent, identifier, extendable) ==
  feistelCipher(data, <<0, 1, 2, 3>>, passphrase, iterationExponent, identifier,
                extendable)

feistelCipherDecrypt(data, passphrase, iterationExponent, identifier, extendable) ==
  feistelCipher(data, <<3, 2, 1, 0>>, passphrase, iterationExponent, identifier,
                extendable)

\* ----- the share codec
ShareMetadata(identifier, extendable, iterationExponent, groupIndex, groupThreshold, groupCount, memberIndex, memberThreshold) ==
  [identifier |-> identifier, extendable |-> extendable,
   iterationExponent |-> iterationExponent, groupIndex |-> groupIndex,
   groupThreshold |-> groupThreshold, groupCount |-> groupCount,
   memberIndex |-> memberIndex, memberThreshold |-> memberThreshold]

encodeMetadata(metadata) ==
  << BitAnd(ShiftRight(metadata.identifier, 5), 1023),
     BitOr(BitOr(ShiftLeft(BitAnd(metadata.identifier, 31), 5),
                 ShiftLeft(IF metadata.extendable THEN 1 ELSE 0, 4)),
           BitAnd(metadata.iterationExponent, 15)),
     BitOr(BitOr(ShiftLeft(BitAnd(metadata.groupIndex, 15), 6),
                 ShiftLeft(BitAnd(metadata.groupThreshold - 1, 15), 2)),
           ShiftRight(BitAnd(metadata.groupCount - 1, 12), 2)),
     BitOr(BitOr(ShiftLeft(BitAnd(metadata.groupCount - 1, 3), 8),
                 ShiftLeft(BitAnd(metadata.memberIndex, 15), 4)),
           BitAnd(metadata.memberThreshold - 1, 15)) >>

\* decodeMetadata that reads the group count from word 2 alone: the variant
\* that the codec property of C26 must tell apart.
decodeMetadataShort(wordIndices) ==
  ShareMetadata(
    BitAnd(BitOr(ShiftLeft(wordIndices[1], 5),
                 BitAnd(ShiftRight(wordIndices[2], 5), 31)), 32767),
    BitAnd(ShiftRight(wordIndices[2], 4), 1) = 1,
    BitAnd(wordIndices[2], 15),
    BitAnd(ShiftRight(wordIndices[3], 6), 15),
    BitAnd(ShiftRight(wordIndices[3], 2), 15) + 1,
    ShiftLeft(BitAnd(wordIndices[3], 3), 2) + 1,
    BitAnd(ShiftRight(wordIndices[4], 4), 15),
    BitAnd(wordIndices[4], 15) + 1)

decodeMetadata(wordIndices) ==
  ShareMetadata(
    BitAnd(BitOr(ShiftLeft(wordIndices[1], 5),
                 BitAnd(ShiftRight(wordIndices[2], 5), 31)), 32767),
    BitAnd(ShiftRight(wordIndices[2], 4), 1) = 1,
    BitAnd(wordIndices[2], 15),
    BitAnd(ShiftRight(wordIndices[3], 6), 15),
    BitAnd(ShiftRight(wordIndices[3], 2), 15) + 1,
    BitOr(ShiftLeft(BitAnd(wordIndices[3], 3), 2),
          BitAnd(ShiftRight(wordIndices[4], 8), 3)) + 1,
    BitAnd(ShiftRight(wordIndices[4], 4), 15),
    BitAnd(wordIndices[4], 15) + 1)

\* A BigInt is the sequence of its binary digits, the most significant first
\* and no leading zero (0n is the empty sequence).
Canonical(bits) ==
  LET ones == { i \in 1..Len(bits) : bits[i] = 1 }
  IN IF ones = {} THEN <<>>
     ELSE SubSeq(bits, CHOOSE i \in ones : \A j \in ones : i <= j, Len(bits))

\* The digits of the numbers of a sequence, each number below 2^width.
DigitsOf(numbers, width) ==
  [i \in 1..(width * Len(numbers)) |->
     ShiftRight(numbers[((i - 1) \div width) + 1], width - 1 - ((i - 1) % width)) % 2]

\* Number((valueInt >> from) % 2^width), for width <= 10.
RECURSIVE BigDigit(_, _, _)
BigDigit(valueInt, from, width) ==
  IF width = 0 THEN 0
  ELSE (IF Len(valueInt) - from >= 1 THEN valueInt[Len(valueInt) - from] ELSE 0)
         + 2 * BigDigit(valueInt, from + 1, width - 1)

\* valueInt > (1n << dataBits) - 1n.
BigExceeds(valueInt, dataBits) == Len(valueInt) > dataBits

\* valueInt = (valueInt << 8n) + BigInt(byte), for every byte from 0n.
bytesToBigInt(bytes) == Canonical(DigitsOf(bytes, 8))

\* The loop with push in the place of unshift: the variant that the round
\* trip of C24 must tell apart.
secretWordsPushed(valueInt, totalWords) ==
  [w \in 1..totalWords |-> BigDigit(valueInt, 10 * (w - 1), 10)]

\* The loop of encodeShare that unshifts Number(valueInt % 1024n) and divides
\* valueInt by 1024n, totalWords times.
secretWordsOf(valueInt, totalWords) ==
  [w \in 1..totalWords |-> BigDigit(valueInt, 10 * (totalWords - w), 10)]

encodeShare(metadata, encryptedSecret) ==
  LET totalBits == Len(encryptedSecret) * 8
      totalWords == (totalBits + 9) \div 10
      valueInt == bytesToBigInt(encryptedSecret)
      words == encodeMetadata(metadata) \o secretWordsOf(valueInt, totalWords)
      customization == IF metadata.extendable THEN "shamir_extendable" ELSE "shamir"
      all == words \o rs1024CreateChecksum(customization, words)
  IN [i \in 1..Len(all) |-> SLIP39_WORDLIST(all[i])]

\* valueInt = valueInt * 1024n + BigInt(wordIdx), for every word from 0n.
wordsToBigInt(valueWords) == Canonical(DigitsOf(valueWords, 10))

\* The loop of decodeShare that fills the bytes from the last to the first
\* with Number(valueInt & 0xFFn) and shifts valueInt right by 8.
bigIntToBytes(valueInt, valueByteCount) ==
  [b \in 1..valueByteCount |-> BigDigit(valueInt, 8 * (valueByteCount - b), 8)]

decodeShare(words) ==
  LET wordIndices == [i \in 1..Len(words) |-> WORD_TO_INDEX(toLowerCase(words[i]))]
  IN IF \E i \in 1..Len(words) : wordIndices[i] = Null THEN Throw("Invalid word")
     ELSE IF Len(wordIndices) # 20 /\ Len(wordIndices) # 33
     THEN Throw("Invalid mnemonic length")
     ELSE LET metadata == decodeMetadata(wordIndices)
              valueWords == SubSeq(wordIndices, 5, Len(wordIndices) - 3)
              totalValueBits == Len(valueWords) * 10
              paddingBits == totalValueBits % 16
              dataBits == totalValueBits - paddingBits
              valueByteCount == dataBits \div 8
              valueInt == wordsToBigInt(valueWords)
          IN IF BigExceeds(valueInt, dataBits) THEN Throw("Invalid mnemonic padding")
             ELSE Returns([metadata |-> metadata,
                           encryptedSecret |-> bigIntToBytes(valueInt, valueByteCount)])

\* ----- texts
\* A text is a sequence of words and runs of whitespace.
Whitespace == [index |-> Null - 2, upper |-> FALSE]

\* words.join(' ').
join(words) ==
  [i \in 1..(2 * Len(words) - 1) |->
     IF i % 2 = 1 THEN words[(i + 1) \div 2] ELSE Whitespace]

RECURSIVE trimStart(_)
trimStart(text) ==
  IF text # <<>> /\ text[1] = Whitespace THEN trimStart(Tail(text)) ELSE text

RECURSIVE trimEnd(_)
trimEnd(text) ==
  IF text # <<>> /\ text[Len(text)] = Whitespace
  THEN trimEnd(SubSeq(text, 1, Len(text) - 1)) ELSE text

\* String.prototype.trim that leaves the text as it is: the variant that the
\* tokenization of C30 must tell apart.
trimNothing(text) == text

\* String.prototype.trim of a text.
trimText(text) == trimEnd(trimStart(text))

\* text.split(/\s+/): the pieces between the runs of whitespace, an empty
\* piece before a leading and after a trailing run, and one empty piece for
\* the empty text.  Words that follow each other without whitespace make a
\* piece that is no vocabulary word.
split(text) ==
  LET letters(i) == text[i] # Whitespace
      starts(i) == letters(i) /\ (i = 1 \/ ~letters(i - 1))
      piece(i) == IF i < Len(text) /\ letters(i + 1) THEN NoWord ELSE text[i]
      empty(i) == IF letters(i) THEN <<>> ELSE <<EmptyString>>
      first == SelectSeq([i \in 1..Len(text) |-> i], starts)
  IN IF text = <<>> THEN <<EmptyString>>
     ELSE empty(1) \o [n \in 1..Len(first) |-> piece(first[n])] \o empty(Len(text))

\* ----- the exported functions
\* generateMnemonic(masterSecret), with the identifier generateIdentifier()
\* draws.
generateMnemonic(masterSecret, identifier) ==
  IF Len(masterSecret) # 16 /\ Len(masterSecret) # 32
  THEN Throw("Master secret must be 16 bytes (128-bit) or 32 bytes (256-bit)")
  ELSE LET iterationExponent == 0
           extendable == FALSE
           passphrase == <<>>
           encryptedSecret ==
             feistelCipherEncrypt(masterSecret, passphrase, iterationExponent,
                                  identifier, extendable).value
           metadata == ShareMetadata(identifier, extendable, iterationExponent,
                                     0, 1, 1, 0, 1)
       IN Returns(join(encodeShare(metadata, encryptedSecret)))

\* validateMnemonic(mnemonic): nothing in its try block throws for a text.
validateMnemonic(mnemonic) ==
  LET words == split(trimText(mnemonic))
  IN IF Len(words) # 20 /\ Len(words) # 33 THEN FALSE
     ELSE IF \E i \in 1..Len(words) : WORD_TO_INDEX(toLowerCase(words[i])) = Null
     THEN FALSE
     ELSE LET wordIndices ==
                [i \in 1..Len(words) |-> WORD_TO_INDEX(toLowerCase(words[i]))]
              extendable == BitAnd(ShiftRight(wordIndices[2], 4), 1) = 1
              customization == IF extendable THEN "shamir_extendable" ELSE "shamir"
          IN rs1024VerifyChecksum(customization, wordIndices)

recoverMasterSecret(mnemonic) ==
  LET words == split(trimText(mnemonic))
  IN IF Len(words) # 20 /\ Len(words) # 33 THEN Throw("Invalid mnemonic length")
     ELSE LET share == decodeShare(words)
          IN IF share.error # "none" THEN share
             ELSE feistelCipherDecrypt(share.value.encryptedSecret, <<>>,
                                       share.value.metadata.iterationExponent,
                                       share.value.metadata.identifier,
                                       share.value.metadata.extendable)


\* ----- state of the mnemonic functions
\* slip.prf is the round function of the library; the other fields are the
\* arguments and results of the calls made so far.
Prfs == {1, 3}
NoGeneration == [masterSecret |-> <<>>, identifier |-> Null, mnemonic |-> <<>>]
NotCalled == Throw("not called")

SlipIdle ==
  [op |-> "none", prf |-> 1, masterSecret |-> <<>>, identifier |-> Null,
   generated |-> NotCalled, generations |-> 0, previous |-> NoGeneration,
   mnemonic |-> <<>>, origin |-> "none", lastEdit |-> "none", position |-> Null,
   edits |-> 0,
   valid |-> FALSE, recovered |-> NotCalled, passphrase |-> <<>>,
   decrypted |-> NotCalled]

\* The byte sequences of the callers: the secret of the first test vector,
\* an all-zero one, a 32-byte one, and one of a length the generator refuses.
VectorSecret ==
  << 187, 84, 170, 196, 184, 157, 200, 104, 186, 55, 217, 204, 33, 178, 206, 206 >>
MasterSecrets ==
  { VectorSecret, [i \in 1..16 |-> 0], [i \in 1..32 |-> (37 * i) % 256],
    [i \in 1..15 |-> 255] }

\* generateIdentifier(): ((array[0] << 8) | array[1]) & 0x7FFF of two random
\* bytes is any value of 15 bits.
generateIdentifier(array) == BitAnd(BitOr(ShiftLeft(array[1], 8), array[2]), 32767)
RandomPairs == { <<0, 0>>, <<31, 9>>, <<255, 255>> }

\* The word items of a text, and the positions they stand at.
IsLetters(item) == item # Whitespace
Tokens(text) == SelectSeq(text, IsLetters)
WordPositions(text) == { i \in 1..Len(text) : IsLetters(text[i]) }

\* generateMnemonic(masterSecret) is called, while fewer than limit calls
\* were made; the text it returns is the one at hand from then on.
GenerateMnemonicUpTo(masterSecret, array, limit) ==
  LET identifier == generateIdentifier(array)
      mnemonic == generateMnemonic(masterSecret, identifier)
      ok == mnemonic.error = "none"
  IN /\ slip.generations < limit
     /\ slip.origin \in {"none", "generateMnemonic"}
     /\ slip.edits = 0
     /\ slip' = [slip EXCEPT
                   !.op = "generateMnemonic",
                   !.masterSecret = masterSecret,
                   !.identifier = identifier,
                   !.generated = mnemonic,
                   !.generations = @ + 1,
                   !.previous = IF slip.generated.error = "none"
                                THEN [masterSecret |-> slip.masterSecret,
                                      identifier |-> slip.identifier,
                                      mnemonic |-> slip.generated.value]
                                ELSE @,
                   !.mnemonic = IF ok THEN mnemonic.value ELSE @,
                   !.origin = IF ok THEN "generateMnemonic" ELSE @,
                   !.lastEdit = IF ok THEN "none" ELSE @,
                   !.position = IF ok THEN Null ELSE @,
                   !.edits = IF ok THEN 0 ELSE @]
     /\ UNCHANGED <<walletVars, apiVars, restVars>>

GenerateMnemonic(masterSecret, array) ==
  GenerateMnemonicUpTo(masterSecret, array, MaxGenerations)

\* A mnemonic of another SLIP-39 implementation is entered: the share of a
\* sharing with these metadata, with its checksum.
ForeignMetadata ==
  { ShareMetadata(7945, FALSE, 0, 0, 1, 1, 0, 1),
    ShareMetadata(7945, TRUE, 1, 0, 1, 1, 0, 1),
    ShareMetadata(100, FALSE, 0, 0, 1, 1, 1, 2),
    ShareMetadata(100, FALSE, 0, 1, 2, 3, 0, 1),
    ShareMetadata(100, FALSE, 0, 0, 1, 2, 0, 1) }
ForeignValues == { [i \in 1..16 |-> (11 * i) % 256], [i \in 1..32 |-> 255 - i] }

EnterForeign(metadata, value) ==
  /\ slip.origin = "none"
  /\ slip' = [slip EXCEPT !.op = "enter",
                          !.mnemonic = join(encodeShare(metadata, value)),
                          !.origin = "foreign"]
  /\ UNCHANGED <<walletVars, apiVars, restVars>>

\* A text that is no mnemonic is entered.
OtherTexts ==
  { <<>>, <<Whitespace>>, <<Word(0)>>, join([i \in 1..20 |-> Word(0)]),
    join([i \in 1..33 |-> Word(i)]) }

EnterText(text) ==
  /\ slip.origin = "none"
  /\ slip' = [slip EXCEPT !.op = "enter", !.mnemonic = text, !.origin = "typed"]
  /\ UNCHANGED <<walletVars, apiVars, restVars>>

Edited(text, edit, position) ==
  /\ slip.edits < MaxEdits
  /\ slip' = [slip EXCEPT !.op = "edit", !.mnemonic = text, !.lastEdit = edit,
                          !.position = position, !.edits = @ + 1]
  /\ UNCHANGED <<walletVars, apiVars, restVars>>

\* One word of a mnemonic that validateMnemonic accepted is replaced by a
\* different word of the vocabulary.
WordChanges == {1, 16, 1023}

ReplaceWord(position, change) ==
  /\ slip.op = "validateMnemonic" /\ slip.valid
  /\ position \in WordPositions(slip.mnemonic)
  /\ LET old == slip.mnemonic[position]
         new == [old EXCEPT !.index = BitXor(old.index, change)]
     IN Edited([slip.mnemonic EXCEPT ![position] = new], "ReplaceWord", position)

\* The text is padded with whitespace, or typed in capitals.
Reformat(how) ==
  /\ slip.mnemonic # <<>>
  /\ Edited(IF how = "pad" THEN <<Whitespace>> \o trimText(slip.mnemonic) \o <<Whitespace>>
            ELSE [i \in 1..Len(slip.mnemonic) |->
                    IF IsLetters(slip.mnemonic[i]) THEN UpperCase(slip.mnemonic[i])
                    ELSE slip.mnemonic[i]],
            "Reformat", Null)

\* The last word is left out, or one word is misspelt.
DropWord ==
  /\ Len(slip.mnemonic) >= 3
  /\ Edited(trimText(SubSeq(slip.mnemonic, 1, Len(slip.mnemonic) - 1)), "DropWord",
            Len(slip.mnemonic))

Misspell(position) ==
  /\ position \in WordPositions(slip.mnemonic)
  /\ Edited([slip.mnemonic EXCEPT ![position] = NoWord], "Misspell", position)

MisspellPositions == {1, 2, 39}

\* validateMnemonic(mnemonic) and recoverMasterSecret(mnemonic) are called
\* with the text.
ValidateMnemonic ==
  /\ slip.op \in {"generateMnemonic", "enter", "edit", "recoverMasterSecret"}
  /\ slip.origin # "none"
  /\ slip' = [slip EXCEPT !.op = "validateMnemonic",
                          !.valid = validateMnemonic(slip.mnemonic)]
  /\ UNCHANGED <<walletVars, apiVars, restVars>>

RecoverMasterSecret ==
  /\ slip.op \in {"generateMnemonic", "enter", "edit", "validateMnemonic"}
  /\ slip.origin # "none"
  /\ slip' = [slip EXCEPT !.op = "recoverMasterSecret",
                          !.recovered = recoverMasterSecret(slip.mnemonic)]
  /\ UNCHANGED <<walletVars, apiVars, restVars>>

\* The first test vector of SLIP-39: duckling enlarge academic academic agency
\* result length solution fridge kidney coal piece deal husband erode duke ajar
\* critical decision keyboard, by the places of its words in the wordlist.
VectorIndices ==
  << 248, 288, 0, 0, 17, 753, 521, 840, 372, 497, 155, 670, 192, 448, 297, 249,
     23, 173, 196, 496 >>
VectorMnemonic == join([i \in 1..20 |-> Word(VectorIndices[i])])
Trezor == << 84, 82, 69, 90, 79, 82 >>

\* The text is decoded and its value decrypted with a passphrase, as the
\* vector test does: decodeShare, then feistelCipherDecrypt.
DecryptShare(passphrase) ==
  LET share == decodeShare(split(trimText(slip.mnemonic)))
  IN /\ slip.op \in {"enter", "edit", "validateMnemonic", "recoverMasterSecret"}
     /\ slip.origin # "none"
     /\ slip' = [slip EXCEPT
                   !.op = "feistelCipherDecrypt",
                   !.passphrase = passphrase,
                   !.decrypted =
                     IF share.error # "none" THEN share
                     ELSE feistelCipherDecrypt(share.value.encryptedSecret, passphrase,
                                               share.value.metadata.iterationExponent,
                                               share.value.metadata.identifier,
                                               share.value.metadata.extendable)]
     /\ UNCHANGED <<walletVars, apiVars, restVars>>

\* ----- state of a cipher round trip
Datas ==
  { <<1, 2>>, <<255, 0>>, <<9, 8, 7, 6>>, <<0, 0, 0, 0>>, VectorSecret,
    <<5>>, <<1, 2, 3>> }
Passphrases == { <<>>, Trezor }
IterationExponents == {0, 1, 15}
CipherIdentifiers == {0, 7945}

CipherInputs ==
  [op : {"none"}, prf : Prfs, data : Datas, passphrase : Passphrases,
   iterationExponent : IterationExponents, identifier : CipherIdentifiers,
   extendable : BOOLEAN, ops : {<<>>}, out : {NotCalled}]

\* The data the next cipher call is made with: the caller's, then the result
\* of the call before.
CipherArgument == IF slip.ops = <<>> THEN slip.data ELSE slip.out.value

CipherCalled(name, out) ==
  /\ Len(slip.ops) < 2
  /\ slip.ops # <<>> => slip.out.error = "none"
  /\ slip' = [slip EXCEPT !.op = name, !.ops = Append(@, name), !.out = out]
  /\ UNCHANGED <<walletVars, apiVars, restVars>>

Encrypt ==
  CipherCalled("feistelCipherEncrypt",
               feistelCipherEncrypt(CipherArgument, slip.passphrase,
                                    slip.iterationExponent, slip.identifier,
                                    slip.extendable))

Decrypt ==
  CipherCalled("feistelCipherDecrypt",
               feistelCipherDecrypt(CipherArgument, slip.passphrase,
                                    slip.iterationExponent, slip.identifier,
                                    slip.extendable))

\* ----- state of a codec round trip
Metadatas ==
  { ShareMetadata(identifier, extendable, iterationExponent, groupIndex,
                  groupThreshold, groupCount, memberIndex, memberThreshold) :
      identifier \in {0, 7945, 32767}, extendable \in BOOLEAN,
      iterationExponent \in {0, 15}, groupIndex \in {0, 15},
      groupThreshold \in {1, 16}, groupCount \in {1, 7, 16},
      memberIndex \in {0, 10}, memberThreshold \in {1, 16} }

EncryptedSecrets ==
  { VectorSecret, [i \in 1..16 |-> 0], [i \in 1..16 |-> 255],
    [i \in 1..32 |-> (37 * i) % 256], [i \in 1..32 |-> 255] }

CodecInputs ==
  [op : {"none"}, prf : {1}, metadata : Metadatas,
   encryptedSecret : EncryptedSecrets, words : {<<>>}, decoded : {NotCalled}]

EncodeShare ==
  /\ slip.op = "none"
  /\ slip' = [slip EXCEPT !.op = "encodeShare",
                          !.words = encodeShare(slip.metadata, slip.encryptedSecret)]
  /\ UNCHANGED <<walletVars, apiVars, restVars>>

DecodeShare ==
  /\ slip.op = "encodeShare"
  /\ slip' = [slip EXCEPT !.op = "decodeShare", !.decoded = decodeShare(slip.words)]
  /\ UNCHANGED <<walletVars, apiVars, restVars>>

\* ------------------------------------------------------------ specification
TypedConditions == SpendingConditions(1, 2, 3)

NoResult == [op |-> "none", outcome |-> "none"]
NoCalls == [refresh |-> 0, activate |-> 0, create |-> 0, complete |-> 0, send |-> 0]

WalletInit ==
  /\ tip = 0
  /\ outputs = {}
  /\ txs = {}
  /\ nextTxid = 1
  /\ store = [p \in Parties |->
                << NewStandardAccount, NewInheritanceAccount(p, TypedConditions) >>]
  /\ held = [p \in Parties |-> NewInheritanceAccount(p, TypedConditions)]
  /\ rf = [p \in Parties |-> RfIdle]
  /\ act = [p \in Parties |-> ActIdle]
  /\ result = [p \in Parties |-> NoResult]
  /\ calls = [p \in Parties |-> NoCalls]
  /\ apiFailures = 0
  /\ sp = [p \in Parties |-> SpIdle]
  /\ psbts = {}

Init ==
  /\ WalletInit
  /\ ApiInit
  /\ slip = SlipIdle
  /\ RestInit

Next ==
  \/ \E address \in PayableAddresses, value \in DepositValues : Deposit(address, value)
  \/ ReadAccount("user")
  \/ GenerateNewAddress("user")
  \/ \E fresh \in BOOLEAN : RefreshStart("user", fresh)
  \/ RefreshFetch("user")
  \/ RefreshSave("user")
  \/ \E feeRate \in FeeRates : ActivateStart("user", feeRate)
  \/ ActivateCollect("user")
  \/ ActivateBroadcastOk("user")
  \/ ActivateBroadcastFail("user")

Spec == Init /\ [][Next]_vars

\* --------------------------------------- specification of the co-signed spend
\* Each party creates the account in its own wallet and types the spending
\* conditions itself (InheritanceModal): the two wallets may hold different ones.
ConditionChoices == {SpendingConditions(1, 2, 2), SpendingConditions(0, 2, 2)}
SpendAmounts == {0, 100, 400}
SpendFeeRates == {0, 1}

\* The spend is followed from the state a successful activation leaves (the
\* state Spec reaches by Deposit, ActivateStart, ActivateCollect and
\* ActivateBroadcastOk): one deposit to the first funding address, swept at
\* 1 sat/vB to the active address the call derived; the sweep is unconfirmed.
FirstDeposit(height) ==
  [txid |-> 1, vout |-> 0, value |-> 600,
   address |-> deriveInheritanceAddressFromXpubs("funding", 0, 0),
   height |-> height, spent |-> FALSE, deposit |-> TRUE]

ActivatedAccount(conditions) ==
  [ensureInheritanceActiveAddress(NewInheritanceAccount("user", conditions)).account
     EXCEPT !.inheritanceActivated = TRUE]

FirstSweep(conditions, height) ==
  activationTransaction({FirstDeposit(height)},
    ensureInheritanceActiveAddress(NewInheritanceAccount("user", conditions)).destination,
    1)

\* The wallets and the chain after that activation; `height` is the block of
\* the deposit and the sweep (0: not yet confirmed).
AfterActivation(userConditions, heirConditions, height) ==
  /\ nextTxid = 3
  /\ store = [p \in Parties |->
                << NewStandardAccount,
                   IF p = "user" THEN ActivatedAccount(userConditions)
                   ELSE NewInheritanceAccount(p, heirConditions) >>]
  /\ held = [p \in Parties |->
               IF p = "user" THEN ActivatedAccount(userConditions)
               ELSE NewInheritanceAccount(p, heirConditions)]
  /\ txs = {FirstSweep(userConditions, height) @@ [txid |-> 2]}
  /\ outputs =
       {[FirstDeposit(height) EXCEPT !.spent = TRUE],
        [txid |-> 2, vout |-> 0,
         value |-> FirstSweep(userConditions, height).outputs[1].value,
         address |-> FirstSweep(userConditions, height).outputs[1].address,
         height |-> height, spent |-> FALSE, deposit |-> FALSE]}
  /\ rf = [p \in Parties |-> RfIdle]
  /\ act = [p \in Parties |-> ActIdle]
  /\ result = [p \in Parties |-> NoResult]
  /\ calls = [p \in Parties |-> NoCalls]
  /\ apiFailures = 0
  /\ sp = [p \in Parties |-> SpIdle]
  /\ psbts = {}
  /\ ApiInit
  /\ slip = SlipIdle
  /\ RestInit

InitSpend ==
  /\ tip = 0
  /\ \E cu \in ConditionChoices, ch \in ConditionChoices : AfterActivation(cu, ch, 0)

NextSpend ==
  \/ Mine
  \/ \E p \in Parties : RefreshStart(p, TRUE)
  \/ \E p \in Parties : RefreshFetch(p)
  \/ \E p \in Parties : RefreshSave(p)
  \/ \E p \in Parties, amountSats \in SpendAmounts, feeRate \in SpendFeeRates :
       CreateStart(p, ExternalAddress(1), Integer(amountSats), Integer(feeRate))
  \/ \E p \in Parties : CreateFinish(p)
  \/ \E p \in Parties, psbt \in psbts : CompleteSign(p, psbt)
  \/ \E p \in Parties : CompleteBroadcastOk(p)
  \/ \E p \in Parties : CompleteBroadcastFail(p)
  \/ \E p \in Parties : SendBitcoin(p)

SpecSpend == InitSpend /\ [][NextSpend]_vars

\* ------------------------------- specification of the eligibility computation
\* calculateInheritanceStatus applied, through a balance refresh, to an
\* activated account whose sweep was confirmed in block 1, for every tip
\* height up to MaxBlocks and each of these conditions.
StatusConditionChoices ==
  {SpendingConditions(5, 10, 20), SpendingConditions(5, 20, 10),
   SpendingConditions(1, 2, 3)}

InitStatus ==
  \E t \in 0..MaxBlocks, conditions \in StatusConditionChoices :
    /\ tip = t
    /\ AfterActivation(conditions, conditions, IF t >= 1 THEN 1 ELSE 0)

NextStatus ==
  \/ RefreshStart("user", TRUE)
  \/ RefreshFetch("user")
  \/ RefreshSave("user")

SpecStatus == InitStatus /\ [][NextStatus]_vars

\* ------------------------------- specification of operations on two accounts
\* The user's wallet with its standard account (B) and its inheritance account
\* (A): balance refreshes and activations of A run while B is renamed or
\* deleted from the account list.
NextAccounts ==
  \/ \E address \in PayableAddresses, value \in DepositValues : Deposit(address, value)
  \/ RefreshStart("user", TRUE)
  \/ RefreshFetch("user")
  \/ RefreshSave("user")
  \/ ActivateStart("user", 1)
  \/ ActivateCollect("user")
  \/ ActivateBroadcastOk("user")
  \/ ActivateBroadcastFail("user")
  \/ \E newName \in Names : RenameAccount("user", StdId, newName)
  \/ DeleteAccount("user", StdId)

SpecAccounts == Init /\ [][NextAccounts]_vars

\* ------------------------------------ specification of the import of a PSBT
\* What a party can paste into the import field besides the PSBTs its
\* counterparty created: a PSBT the counterparty signed that spends the old
\* funding deposit, the swept active output, or both.
PastedPsbts(p) ==
  {[kind |-> "spend", inputs |-> inputs,
    inputValue |-> 600,
    outputs |-> << [address |-> ExternalAddress(1), value |-> 100] >>,
    fee |-> 500,
    signers |-> Parties \ {p}] :
     inputs \in (SUBSET {[txid |-> 1, vout |-> 0], [txid |-> 2, vout |-> 0]}) \ {{}}}

ImportConditions == SpendingConditions(0, 2, 2)

InitImport ==
  /\ tip = 0
  /\ AfterActivation(ImportConditions, ImportConditions, 0)

NextImport ==
  \/ \E p \in Parties : RefreshStart(p, TRUE)
  \/ \E p \in Parties : RefreshFetch(p)
  \/ \E p \in Parties : RefreshSave(p)
  \/ \E p \in Parties : CreateStart(p, ExternalAddress(1), Integer(100), Integer(1))
  \/ \E p \in Parties : CreateFinish(p)
  \/ \E p \in Parties : \E psbt \in psbts \cup PastedPsbts(p) : CompleteSign(p, psbt)
  \/ \E p \in Parties : CompleteBroadcastOk(p)
  \/ \E p \in Parties : CompleteBroadcastFail(p)

SpecImport == InitImport /\ [][NextImport]_vars

\* ------------------------------------- specification of selection and change
\* The user's wallet with UTXOs of these values (in the order the API lists
\* them) on the first address of the standard account and, paid directly, on
\* the first active address of the inheritance account; a refresh finds the
\* latter and computes the status that opens the co-signed spend.
SendUtxoValues ==
  { <<>>, <<1000>>, <<1000, 3000, 5000>>, <<300, 300>>, <<600, 200>> }
SendAmounts == {Integer(0), Integer(462), Integer(516), Integer(4000),
                Integer(8700), Fraction(1)}
SendFeeRates == {Integer(0), Integer(1), NaN, Infinity}
SendRecipients == {ExternalAddress(1), UndecodableAddress}
SendConditions == SpendingConditions(0, 2, 2)

PaidOutput(txid, value, address) ==
  [txid |-> txid, vout |-> 0, value |-> value, address |-> address,
   height |-> 1, spent |-> FALSE, deposit |-> TRUE]

InitSend ==
  /\ tip = 1
  /\ \E values \in SendUtxoValues :
       outputs =
         {PaidOutput(i, values[i], deriveTaprootAddress(0, 0)) : i \in 1..Len(values)}
         \cup {PaidOutput(10 + i, values[i],
                          deriveInheritanceAddressFromXpubs("active", 0, 0)) :
                 i \in 1..Len(values)}
  /\ txs = {}
  /\ nextTxid = 20
  /\ store = [p \in Parties |->
                << NewStandardAccount, NewInheritanceAccount(p, SendConditions) >>]
  /\ held = [p \in Parties |-> NewInheritanceAccount(p, SendConditions)]
  /\ rf = [p \in Parties |-> RfIdle]
  /\ act = [p \in Parties |-> ActIdle]
  /\ result = [p \in Parties |-> NoResult]
  /\ calls = [p \in Parties |-> NoCalls]
  /\ apiFailures = 0
  /\ sp = [p \in Parties |-> SpIdle]
  /\ psbts = {}
  /\ ApiInit
  /\ slip = SlipIdle
  /\ RestInit

NextSend ==
  \/ RefreshStart("user", TRUE)
  \/ RefreshFetch("user")
  \/ RefreshSave("user")
  \/ \E recipientAddress \in SendRecipients, amountSats \in SendAmounts,
        feeRate \in SendFeeRates :
       CreateStart("user", recipientAddress, amountSats, feeRate)
  \/ CreateFinish("user")
  \/ \E recipientAddress \in SendRecipients, amountSats \in SendAmounts,
        feeRate \in SendFeeRates :
       SendStart("user", recipientAddress, amountSats, feeRate)
  \/ SendBuild("user")
  \/ SendBroadcastOk("user")
  \/ SendBroadcastFail("user")

SpecSend == InitSend /\ [][NextSend]_vars

\* ------------------------------------ specification of the account creation
\* A wallet that holds its standard account only.  Inheritance accounts are
\* created from the form (InheritanceModal lets through conditions whose
\* joint threshold is not above a single-key one) and from pasted share
\* payloads, whose conditions are whatever the JSON holds; accounts are
\* deleted.
AccountIds == {InhId, "inh2"}
ShareConditions ==
  {SpendingConditions(m, u, h) :
     m \in 0..MaxThreshold, u \in 0..MaxThreshold, h \in 0..MaxThreshold}
FormConditions ==
  {c \in ShareConditions :
     /\ c.multisigAfterBlocks <= c.userOnlyAfterBlocks
     /\ c.multisigAfterBlocks <= c.heirOnlyAfterBlocks}
SharePayloads ==
  {SharePayload("inheritance-account", role, c, id) :
     role \in {"user", "heir", "server"}, c \in ShareConditions, id \in AccountIds}
  \cup {SharePayload("contact", "user", SpendingConditions(0, 0, 0), InhId)}

InitCreate ==
  /\ tip = 0
  /\ outputs = {}
  /\ txs = {}
  /\ nextTxid = 1
  /\ store = [p \in Parties |-> << NewStandardAccount >>]
  /\ held = [p \in Parties |-> NewStandardAccount]
  /\ rf = [p \in Parties |-> RfIdle]
  /\ act = [p \in Parties |-> ActIdle]
  /\ result = [p \in Parties |-> NoResult]
  /\ calls = [p \in Parties |-> NoCalls]
  /\ apiFailures = 0
  /\ sp = [p \in Parties |-> SpIdle]
  /\ psbts = {}
  /\ ApiInit
  /\ slip = SlipIdle
  /\ RestInit

NextCreate ==
  \/ \E conditions \in FormConditions, accountId \in AccountIds :
       CreateInheritanceAccount("user", "Inheritance", "user", conditions, accountId)
  \/ \E payload \in SharePayloads : ImportInheritanceAccountShare("user", payload)
  \/ \E accountId \in AccountIds : DeleteAccount("user", accountId)

SpecCreate == InitCreate /\ [][NextCreate]_vars

\* ------------------------------------ specification of the address issuance
\* The user's wallet issues funding addresses past the range the balance
\* refresh audits (AuditLimit), payers use some of them, and refreshes run.
NextIssue ==
  \/ \E address \in PayableAddresses, value \in DepositValues : Deposit(address, value)
  \/ ReadAccount("user")
  \/ GenerateNewAddressUpTo("user", MaxIssued)
  \/ RefreshStart("user", TRUE)
  \/ RefreshFetch("user")
  \/ RefreshSave("user")

SpecIssue == Init /\ [][NextIssue]_vars

\* ------------------------------------ specification of the chain-data client
\* Two callers make read queries and broadcasts while the server answers,
\* fails or rate-limits, the backoff timers fire and time passes.
ElapseSteps == {RateLimitCooldownMs}

NextApi ==
  \/ \E c \in Callers, query \in Queries : QueryCall(c, query)
  \/ \E c \in Callers : BroadcastCall(c)
  \/ \E c \in Callers, response \in Responses : HttpRespond(c, response)
  \/ \E c \in Callers : Wake(c)
  \/ \E ms \in ElapseSteps : Elapse(ms)

SpecApi == Init /\ [][NextApi]_vars

\* ------------------------------------------ specification of fetchWithRetry
\* One caller makes read queries (retries 2) and broadcasts (retries 1); every
\* fetch is answered or fails in the end, and every timer fires.
RetryCaller == "c1"

NextRetry ==
  \/ \E query \in Queries : QueryCall(RetryCaller, query)
  \/ BroadcastCall(RetryCaller)
  \/ \E response \in Responses : HttpRespond(RetryCaller, response)
  \/ Wake(RetryCaller)
  \/ \E ms \in ElapseSteps : Elapse(ms)

SpecRetry ==
  /\ Init
  /\ [][NextRetry]_vars
  /\ WF_vars(\E response \in Responses \ {"ok"} : HttpRespond(RetryCaller, response))
  /\ WF_vars(Wake(RetryCaller))

\* -------------------------------- specification of the mnemonic functions
\* Secrets are turned into mnemonics, which are validated and recovered from.
InitMnemonic ==
  /\ WalletInit
  /\ ApiInit
  /\ slip \in { [SlipIdle EXCEPT !.prf = prf] : prf \in Prfs }
  /\ RestInit

NextMnemonic ==
  \/ \E masterSecret \in MasterSecrets, array \in RandomPairs :
       GenerateMnemonic(masterSecret, array)
  \/ ValidateMnemonic
  \/ RecoverMasterSecret

SpecMnemonic == InitMnemonic /\ [][NextMnemonic]_vars

\* ------------------------------------- specification of the entered texts
\* One text is at hand: a generated mnemonic, the mnemonic of another
\* implementation or another text.  It is edited, validated and recovered
\* from.
NextText ==
  \/ \E masterSecret \in MasterSecrets, array \in RandomPairs :
       GenerateMnemonicUpTo(masterSecret, array, 1)
  \/ \E metadata \in ForeignMetadata, value \in ForeignValues :
       EnterForeign(metadata, value)
  \/ \E text \in OtherTexts : EnterText(text)
  \/ \E position \in 1..(2 * 33), change \in WordChanges : ReplaceWord(position, change)
  \/ \E how \in {"pad", "capitals"} : Reformat(how)
  \/ DropWord
  \/ \E position \in MisspellPositions : Misspell(position)
  \/ ValidateMnemonic
  \/ RecoverMasterSecret

SpecText == InitMnemonic /\ [][NextText]_vars

\* ------------------------------------ specification of the test vector
\* The library's PBKDF2 is the reference one.  The vector or another text is
\* entered, edited, validated, recovered from and decrypted with a passphrase.
InitVector ==
  /\ WalletInit
  /\ ApiInit
  /\ slip = [SlipIdle EXCEPT !.prf = ReferencePrf]
  /\ RestInit

NextVector ==
  \/ \E text \in OtherTexts \cup {VectorMnemonic} : EnterText(text)
  \/ \E position \in 1..(2 * 33), change \in WordChanges : ReplaceWord(position, change)
  \/ \E how \in {"pad", "capitals"} : Reformat(how)
  \/ ValidateMnemonic
  \/ RecoverMasterSecret
  \/ \E passphrase \in Passphrases : DecryptShare(passphrase)

SpecVector == InitVector /\ [][NextVector]_vars

\* ----------------------------------------- specification of the cipher
InitFeistel == WalletInit /\ ApiInit /\ RestInit /\ slip \in CipherInputs
NextFeistel == Encrypt \/ Decrypt
SpecFeistel == InitFeistel /\ [][NextFeistel]_vars

\* ------------------------------------------ specification of the codec
InitShare == WalletInit /\ ApiInit /\ RestInit /\ slip \in CodecInputs
NextShare == EncodeShare \/ DecodeShare
SpecShare == InitShare /\ [][NextShare]_vars

\* ================================================================== claims
StoredAccount(p) == store[p][findIndex(store[p], InhId)]

\* The claim's own words for "already activated": the stored flag, or an
\* active-role address with history or balance.
StoredAlreadyActivated(p) ==
  \/ StoredAccount(p).inheritanceActivated
  \/ \E a \in Range(StoredAccount(p).derivedAddresses) :
       a.role # "funding" /\ (a.used \/ a.balance > 0)

\* A step that is a call of activateInheritanceFunds with a valid fee rate.
ActivateCalled(p) == \E feeRate \in FeeRates : feeRate > 0 /\ ActivateStart(p, feeRate)

C2_FlagMonotonic ==
  [][(RefreshSave("user") /\ StoredAccount("user").inheritanceActivated)
       => StoredAccount("user").inheritanceActivated']_vars


\* blocksSinceFunding as the chain has it: the tip minus the height of the
\* earliest confirmed output paid to an active address.
ChainBlocksSinceFunding ==
  LET paid == {o \in outputs : o.address.pair = "active"}
  IN blocksSinceFundingOf(paid # {}, tip, {o.height : o \in paid} \ {0})

\* C3 (as claimed): a party's wallet creates a PSBT spending active addresses
\* (createInheritancePartiallySignedTransaction) or broadcasts such a
\* transaction (completeInheritanceTransactionFromPsbt, sendBitcoin) only
\* while its account is activated and blocksSinceFunding has reached the
\* account's multisigAfterBlocks.
C3_NoEarlySpend ==
  [][\A p \in Parties :
       (\/ \E x \in psbts' \ psbts : x.signers = {p}
        \/ \E t \in txs' \ txs : t.kind = "spend" /\ t.by = p)
         => /\ StoredAlreadyActivated(p)
            /\ ChainBlocksSinceFunding >=
                 StoredAccount(p).spendingConditions.multisigAfterBlocks]_vars

\* The party's own single-key threshold.
SoloAfterBlocks(p) ==
  IF p = "user" THEN StoredAccount(p).spendingConditions.userOnlyAfterBlocks
  ELSE StoredAccount(p).spendingConditions.heirOnlyAfterBlocks

\* A step in which a spend operation of party p succeeds with p's signature
\* alone: sendBitcoin returns a txid, or a transaction signed only by p is
\* final and goes to the broadcast, or is broadcast.
SucceedsAlone(p) ==
  \/ result'[p] = [op |-> "sendBitcoin", outcome |-> "ok"]
  \/ /\ sp'[p].pc = "broadcast"
     /\ sp[p].pc # "broadcast"
     /\ sp'[p].tx.signers = {p}
  \/ \E t \in txs' \ txs : t.kind = "spend" /\ t.signers = {p}

\* C4 (as claimed): in every state where a party's account is activated, an
\* active address holds a UTXO, blocksSinceFunding has reached the party's own
\* single-key threshold and the party has no call in progress, some spend
\* operation is enabled that succeeds with that party's signature alone.
C4_SoloSpendEnabled ==
  \A p \in Parties :
    (/\ StoredAlreadyActivated(p)
     /\ \E o \in outputs : o.address.pair = "active" /\ ~o.spent
     /\ ChainBlocksSinceFunding >= SoloAfterBlocks(p)
     /\ sp[p].pc = "idle"
     /\ calls[p].create < MaxSpendCalls
     /\ calls[p].complete < MaxSpendCalls)
      => ENABLED (NextSpend /\ SucceedsAlone(p))

\* C5 (as claimed): the computed requiresMultisig is true exactly when
\* multisigAfterBlocks <= blocksSinceFunding < min(userOnlyAfterBlocks,
\* heirOnlyAfterBlocks), also when heirOnlyAfterBlocks < userOnlyAfterBlocks.
C5_MultisigWindow ==
  LET status == StoredAccount("user").inheritanceStatus
      conditions == StoredAccount("user").spendingConditions
  IN calls["user"].refresh > 0 /\ rf["user"].pc = "idle"
       => (status.requiresMultisig <=>
             /\ conditions.multisigAfterBlocks <= status.blocksSinceFunding
             /\ status.blocksSinceFunding <
                  Min(conditions.userOnlyAfterBlocks, conditions.heirOnlyAfterBlocks))

\* C6: in a computed status canUserSpend is true exactly when
\* blocksSinceFunding >= userOnlyAfterBlocks and canHeirSpend exactly when
\* blocksSinceFunding >= heirOnlyAfterBlocks, each whatever the other is; for
\* conditions {5, 10, 20} the status at 7 blocks is {requiresMultisig, not
\* canUserSpend, not canHeirSpend} and at 15 blocks {not requiresMultisig,
\* canUserSpend, not canHeirSpend}.
C6_SingleKeyWindows ==
  LET status == StoredAccount("user").inheritanceStatus
      conditions == StoredAccount("user").spendingConditions
      flags == <<status.requiresMultisig, status.canUserSpend, status.canHeirSpend>>
  IN calls["user"].refresh > 0 /\ rf["user"].pc = "idle"
       => /\ status.canUserSpend <=>
               status.blocksSinceFunding >= conditions.userOnlyAfterBlocks
          /\ status.canHeirSpend <=>
               status.blocksSinceFunding >= conditions.heirOnlyAfterBlocks
          /\ conditions = SpendingConditions(5, 10, 20) =>
               /\ status.blocksSinceFunding = 7 => flags = <<TRUE, FALSE, FALSE>>
               /\ status.blocksSinceFunding = 15 => flags = <<FALSE, TRUE, FALSE>>
          /\ (rf["user"].pc = "idle" /\ apiFailures = 0) =>
               status.blocksSinceFunding = ChainBlocksSinceFunding

\* C6 witness: a refresh has computed, for conditions {5, 20, 10} at 15
\* blocks, that the heir can spend and the user cannot.
C6_Witness ==
  LET status == StoredAccount("user").inheritanceStatus
  IN /\ calls["user"].refresh > 0
     /\ StoredAccount("user").spendingConditions = SpendingConditions(5, 20, 10)
     /\ status.blocksSinceFunding = 15
     /\ status.canHeirSpend
     /\ ~status.canUserSpend

\* C7 (as claimed): once the stored account is activated, every
\* generateNewAddress call fails and persists nothing, and getNextUnusedAddress
\* answers null, whatever account object the caller passes.
C7_IssuanceClosed ==
  [][(GenerateNewAddress("user") /\ StoredAlreadyActivated("user"))
       => /\ result'["user"] = [op |-> "generateNewAddress",
                                outcome |-> "Activated"]
          /\ store' = store
          /\ getNextUnusedAddress(held["user"]) = NoAddress]_vars

\* C8: a step of activateInheritanceFunds changes the persisted accounts only
\* when its sweep has been broadcast, and then it sets the flag and persists
\* the sweep's destination as an active address; a step that ends the call
\* with an error, or that broadcasts nothing, leaves the persisted accounts
\* exactly as they were.
C8_PersistOnlyAfterBroadcast ==
  [][(act' # act \/ ActivateCalled("user"))
       => IF \E t \in txs' \ txs : t.kind = "activation"
          THEN /\ result'["user"].outcome = "ok"
               /\ StoredAccount("user").inheritanceActivated'
               /\ \A t \in txs' \ txs :
                    \E a \in Range(StoredAccount("user").derivedAddresses') :
                      /\ a.address = t.outputs[1].address
                      /\ a.role = "active"
          ELSE /\ store' = store
               /\ txs' = txs]_vars

\* C8 witness: a broadcast has failed and the store holds neither the flag nor
\* the destination address the call had prepared.
C8_Witness ==
  /\ result["user"] = [op |-> "activateInheritanceFunds",
                       outcome |-> "BroadcastFailed"]
  /\ ~StoredAccount("user").inheritanceActivated
  /\ ~hasAddress(StoredAccount("user"),
                 deriveInheritanceAddressFromXpubs("active", 1, 0))

\* C9: the sweep that activateInheritanceFunds builds spends every UTXO its
\* requests found on the stored account's funding-role addresses (all of them
\* when no request failed), has exactly one output, to a user+heir active
\* address, worth the inputs' sum minus the estimated fee, and is built only
\* when that output is above 330 sats.
C9_SweepShape ==
  [][(act["user"].pc = "collect" /\ act'["user"].pc = "broadcast")
       => LET a == act["user"]
              tx == act'["user"].tx
              onChain == UNION {UtxosAt(x.address) :
                                  x \in Range(fundingSourceAddresses(
                                                a.accounts[a.accountIndex]))}
              spent == {u \in onChain : Outpoint(u) \in tx.inputs}
          IN /\ tx.inputs \subseteq {Outpoint(u) : u \in onChain}
             /\ apiFailures' = apiFailures => spent = onChain
             /\ Len(tx.outputs) = 1
             /\ tx.outputs[1].address.pair = "active"
             /\ tx.outputs[1].value =
                  SumValues(spent)
                    - estimateInheritanceMultisigFee(Cardinality(spent), 1, a.feeRate)
             /\ tx.outputs[1].value > DustLimit]_vars

\* C9 witness: a broadcast sweep that spent two funding UTXOs.
C9_Witness ==
  \E t \in txs : t.kind = "activation" /\ Cardinality(t.inputs) = 2

\* C10 (as claimed): what updateAccountBalance persists loses nothing that an
\* overlapping generateNewAddress persisted: every stored address stays stored
\* and the stored addressIndex does not go down.
C10_NoLostUpdate ==
  [][RefreshSave("user")
       => /\ \A a \in Range(StoredAccount("user").derivedAddresses) :
               hasAddress(StoredAccount("user")', a.address)
          /\ StoredAccount("user").addressIndex' >= StoredAccount("user").addressIndex
     ]_vars

\* The persisted entry of an account id, <<>> when the store has none.
StoredEntry(p, accountId) ==
  SelectSeq(store[p], LAMBDA item : item.id = accountId)

\* C11 (as claimed): when updateAccountBalance or activateInheritanceFunds on
\* account A writes its result, the persisted store still reflects what an
\* operation on another account B completed meanwhile: B's entry is not
\* overwritten and a deleted B does not reappear.
C11_NoInterference ==
  [][(RefreshSave("user") \/ ActivateBroadcastOk("user"))
       => StoredEntry("user", StdId)' = StoredEntry("user", StdId)]_vars

\* The imported PSBT has an input that is not a current UTXO of an active
\* address of the party's stored account.
HasUnrecognizedInput(p, psbt) ==
  \E i \in psbt.inputs :
    \A a \in Range(SelectSeq(StoredAccount(p).derivedAddresses,
                             isActiveInheritanceAddress)) :
      i \notin {Outpoint(u) : u \in UtxosAt(a.address)}

\* The stored account's active addresses hold a UTXO.
ActiveUtxoKnown(p) ==
  \E a \in Range(SelectSeq(StoredAccount(p).derivedAddresses,
                           isActiveInheritanceAddress)) : UtxosAt(a.address) # {}

\* C12 (as claimed): completeInheritanceTransactionFromPsbt fails with the
\* unrecognized-input error whenever the imported PSBT has an input that is
\* not a current UTXO of an active address of the account; nothing is
\* broadcast and the persisted accounts are unchanged.
C12_AsClaimed ==
  [][\A p \in Parties : \A psbt \in psbts \cup PastedPsbts(p) :
       (CompleteSign(p, psbt) /\ HasUnrecognizedInput(p, psbt))
         => /\ result'[p] = [op |-> "completeInheritanceTransactionFromPsbt",
                             outcome |-> "ForeignInput"]
            /\ sp'[p].pc = "idle"
            /\ txs' = txs
            /\ store' = store]_vars

\* C12 (amended): with such a PSBT the call always fails, broadcasts nothing
\* and leaves the persisted accounts unchanged; the error is the
\* unrecognized-input error when the stored account is activated and the
\* lookup found a UTXO on its active addresses, the not-activated error when
\* the account is not activated, and the no-UTXO error when the lookup is empty.
C12_ForeignInputRefused ==
  [][\A p \in Parties : \A psbt \in psbts \cup PastedPsbts(p) :
       (CompleteSign(p, psbt) /\ HasUnrecognizedInput(p, psbt))
         => /\ result'[p].op = "completeInheritanceTransactionFromPsbt"
            /\ result'[p].outcome \in {"ForeignInput", "NotActivated", "NoUtxos"}
            /\ result'[p].outcome = "NotActivated"
                 <=> ~isInheritanceAccountActivated(StoredAccount(p))
            /\ (/\ isInheritanceAccountActivated(StoredAccount(p))
                /\ ActiveUtxoKnown(p)
                /\ apiFailures' = apiFailures)
                 => result'[p].outcome = "ForeignInput"
            /\ sp'[p].pc = "idle"
            /\ txs' = txs
            /\ outputs' = outputs
            /\ store' = store]_vars

\* C12 witness: a wallet whose account is activated and holds an active UTXO
\* has refused a PSBT for an unrecognized input; nothing was broadcast.
C12_Witness ==
  \E p \in Parties :
    /\ result[p] = [op |-> "completeInheritanceTransactionFromPsbt",
                    outcome |-> "ForeignInput"]
    /\ isInheritanceAccountActivated(StoredAccount(p))
    /\ ActiveUtxoKnown(p)
    /\ Cardinality(txs) = 1

\* C13: a spend from the active addresses is broadcast only as the second of
\* two steps: a PSBT that createInheritancePartiallySignedTransaction of one
\* party built and signed goes, through
\* completeInheritanceTransactionFromPsbt of the other party, to the
\* broadcast with both signatures; a call completing a PSBT that carries, with
\* the local signature, one key's signatures only ends in an error and
\* broadcasts nothing.
C13_TwoStepHandoff ==
  [][/\ \A t \in txs' \ txs :
          t.kind = "spend" =>
            /\ t.signers = Parties
            /\ \E x \in psbts :
                 /\ x.signers = Parties \ {t.by}
                 /\ x.inputs = t.inputs
                 /\ x.outputs = t.outputs
     /\ \A p \in Parties : \A psbt \in psbts :
          (CompleteSign(p, psbt) /\ psbt.signers = {p})
            => /\ result'[p].outcome \in
                    {"CannotFinalize", "NotActivated", "NoUtxos", "ForeignInput"}
               /\ sp'[p].pc = "idle"
               /\ txs' = txs]_vars

\* C13 witness: the heir has completed and broadcast the PSBT the user
\* created, and the user's attempt to complete a PSBT of its own has failed
\* at finalization.
C13_Witness ==
  /\ \E t \in txs : t.kind = "spend" /\ t.by = "heir" /\ t.signers = Parties
  /\ result["user"] = [op |-> "completeInheritanceTransactionFromPsbt",
                       outcome |-> "CannotFinalize"]

\* The transactions a step of sendBitcoin or of
\* createInheritancePartiallySignedTransaction builds; a PSBT created again
\* with the content of an earlier one is the one the call returns.
BuiltInStep(p) ==
  (psbts' \ psbts)
  \cup {x \in psbts' :
          /\ sp[p].pc = "collect"
          /\ result'[p].outcome = "ok"
          /\ x.signers = {sp[p].accounts[sp[p].accountIndex].localRole}
          /\ x.outputs[1] = [address |-> sp[p].recipientAddress,
                             value |-> sp[p].amountSats]
          /\ x.fee = result'[p].fee
          /\ x.inputValue - x.fee - sp[p].amountSats = result'[p].changeAmount
          /\ Len(x.outputs) = 2 <=> result'[p].changeAddress # NoAddress}
  \cup (IF sp[p].pc = "sendCollect" /\ sp'[p].pc = "sendBroadcast"
        THEN {sp'[p].tx} ELSE {})

\* The step in which the call collects the UTXOs and builds.
BuildStep(p) == SendBuild(p) \/ CreateFinish(p)

\* The estimated fee of a number of inputs and outputs, for the kind of call.
ShapeFee(p, inputCount, outputCount) ==
  IF sp[p].pc = "sendCollect"
  THEN estimateTaprootFee(inputCount, outputCount, sp[p].feeRate)
  ELSE estimateInheritanceMultisigFee(inputCount, outputCount, sp[p].feeRate)

SumOutputs(t) ==
  SumValues({[k |-> i, value |-> t.outputs[i].value] : i \in 1..Len(t.outputs)})

\* The UTXOs the chain holds on the addresses the call in progress collects
\* from.
AvailableUtxos(p) ==
  LET accountRef == sp[p].accounts[sp[p].accountIndex]
      sources == IF sp[p].pc = "sendCollect" THEN accountRef.derivedAddresses
                 ELSE activeSourceAddresses(accountRef)
  IN UNION {UtxosAt(a.address) : a \in Range(sources)}

SelectedUtxos(p, t) == {u \in AvailableUtxos(p) : Outpoint(u) \in t.inputs}

C15_GreedyPrefix ==
  [][(BuildStep("user") /\ apiFailures' = apiFailures) =>
       LET p == "user"
           available == AvailableUtxos(p)
           amountSats == sp[p].amountSats
       IN /\ \A t \in BuiltInStep(p) :
               LET selected == SelectedUtxos(p, t)
                   k == Cardinality(selected)
                   least == MinOf({u.value : u \in selected})
               IN /\ \A u \in selected : \A v \in available \ selected :
                       u.value >= v.value
                  /\ k > 1 =>
                       SumValues(selected) - least
                         < amountSats + ShapeFee(p, k - 1, 1)
                  /\ ({u.value : u \in available} = {5000, 3000, 1000}
                        /\ amountSats = 4000 /\ sp[p].feeRate = 1)
                       => {u.value : u \in selected} = {5000}
          /\ (\E S \in (SUBSET available) \ {{}} :
                SumValues(S) >= amountSats + ShapeFee(p, Cardinality(S), 1))
               => BuiltInStep(p) # {}]_vars

\* C15 witness: sendBitcoin has broadcast a payment of 4000 sats that spent
\* the 5000-sat UTXO alone out of 1000, 3000 and 5000.
C15_Witness ==
  \E t \in txs :
    /\ t.kind = "send"
    /\ t.outputs[1].value = 4000
    /\ t.inputValue = 5000
    /\ Cardinality(t.inputs) = 1
    /\ Cardinality({o \in outputs : o.address = deriveTaprootAddress(0, 0)}) = 3

\* C16 (as claimed): a transaction that is built has a change output only if
\* the change (selected value minus amount minus the two-output fee) exceeds
\* 330 sats; a change of 330 sats or less is not paid out.
C16_ChangeAboveDust ==
  [][BuildStep("user") =>
       \A t \in BuiltInStep("user") :
         LET change == t.inputValue - sp["user"].amountSats
                         - ShapeFee("user", Cardinality(t.inputs), 2)
         IN Len(t.outputs) = 2 <=> change > DustLimit]_vars

\* A call of sendBitcoin or createInheritancePartiallySignedTransaction.
SpendCalled(p, recipientAddress, amountSats, feeRate) ==
  \/ SendStart(p, recipientAddress, amountSats, feeRate)
  \/ CreateStart(p, recipientAddress, amountSats, feeRate)

\* The error for the first invalid argument, in the order of the checks.
ArgumentError(recipientAddress, amountSats, feeRate) ==
  IF ~NumberIsInteger(amountSats) \/ NotPositive(amountSats) THEN "InvalidAmount"
  ELSE IF ~NumberIsFinite(feeRate) \/ NotPositive(feeRate) THEN "InvalidFeeRate"
  ELSE IF toOutputScriptThrows(recipientAddress) THEN "InvalidAddress"
  ELSE "none"

\* C17: a call of sendBitcoin or createInheritancePartiallySignedTransaction
\* with a non-integer or non-positive amount, a non-finite or non-positive
\* fee rate or an undecodable recipient address ends with an error in its
\* first step: no chain-data request is made, nothing is derived or signed
\* and the account store is not written.  sendBitcoin on a stored standard
\* account, and the PSBT creation on an account that is activated and open to
\* the co-signed spend, answer with the error of the first invalid argument.
C17_InputRejectedFirst ==
  [][\A recipientAddress \in SendRecipients, amountSats \in SendAmounts,
        feeRate \in SendFeeRates :
       (/\ SpendCalled("user", recipientAddress, amountSats, feeRate)
        /\ ArgumentError(recipientAddress, amountSats, feeRate) # "none")
         => /\ result'["user"].outcome \in
                 {"InvalidAmount", "InvalidFeeRate", "InvalidAddress",
                  "NotActivated", "MultisigNotAvailable"}
            /\ (\/ result'["user"].op = "sendBitcoin"
                \/ /\ isInheritanceAccountActivated(StoredAccount("user"))
                   /\ StoredAccount("user").inheritanceStatus.requiresMultisig)
                 => result'["user"].outcome =
                      ArgumentError(recipientAddress, amountSats, feeRate)
            /\ sp'["user"].pc = "idle"
            /\ apiFailures' = apiFailures
            /\ store' = store
            /\ psbts' = psbts
            /\ txs' = txs
            /\ outputs' = outputs]_vars

\* C17 witness: on an account that is activated and open to the co-signed
\* spend, a PSBT creation has been refused for its amount; nothing was
\* requested, built or saved by it.
C17_Witness ==
  /\ result["user"] = [op |-> "createInheritancePartiallySignedTransaction",
                       outcome |-> "InvalidAmount"]
  /\ isInheritanceAccountActivated(StoredAccount("user"))
  /\ StoredAccount("user").inheritanceStatus.requiresMultisig
  /\ psbts = {}
  /\ sp["user"].pc = "idle"

\* C18 (as claimed): every persisted inheritance account has
\* multisigAfterBlocks <= userOnlyAfterBlocks and multisigAfterBlocks <=
\* heirOnlyAfterBlocks, because createInheritanceAccount, also when reached
\* through importInheritanceAccountShare, rejects other conditions.
C18_ConditionsOrdered ==
  \A p \in Parties : \A account \in Range(store[p]) :
    account.type = "inheritance" =>
      /\ account.spendingConditions.multisigAfterBlocks
           <= account.spendingConditions.userOnlyAfterBlocks
      /\ account.spendingConditions.multisigAfterBlocks
           <= account.spendingConditions.heirOnlyAfterBlocks

\* No two entries of the list share an address or an (index, change, role)
\* triple.
NoDuplicateAddress(addresses) ==
  \A i \in 1..Len(addresses) : \A j \in 1..Len(addresses) :
    i # j =>
      /\ addresses[i].address # addresses[j].address
      /\ <<addresses[i].index, addresses[i].change, addresses[i].role>>
           # <<addresses[j].index, addresses[j].change, addresses[j].role>>

\* C19 (as claimed): in every reachable state no account, stored or held by
\* the UI, has two derivedAddresses entries with the same address or the same
\* (index, change, role); generateNewAddress never adds an entry that is
\* already there, also after a refresh has left gaps in the indexes.
C19_UniqueAddresses ==
  \A p \in Parties :
    /\ NoDuplicateAddress(held[p].derivedAddresses)
    /\ \A account \in Range(store[p]) : NoDuplicateAddress(account.derivedAddresses)

\* C20 (as claimed): a call of createInheritancePartiallySignedTransaction on
\* an activated account is refused as "co-signed spend not available" exactly
\* when the eligibility computed from the chain tip and the funding heights
\* at the time of the call does not require the co-signed spend.
C20_EligibilityAtCallTime ==
  [][\A p \in Parties, amountSats \in SpendAmounts, feeRate \in SpendFeeRates :
       (/\ CreateStart(p, ExternalAddress(1), Integer(amountSats), Integer(feeRate))
        /\ isInheritanceAccountActivated(StoredAccount(p)))
         => ((sp'[p].pc # "collect" /\ result'[p].outcome = "MultisigNotAvailable")
              <=> ~inheritanceStatusOf(StoredAccount(p).spendingConditions,
                                       ChainBlocksSinceFunding).requiresMultisig)]_vars

\* The request of caller c is pending: on the wire or between two attempts.
Pending(c) == apiCall[c].pc \in {"fetching", "sleeping"}

\* The callers whose request for the key is pending.
PendingFor(requestKey) ==
  {c \in Callers : Pending(c) /\ apiCall[c].requestKey = requestKey}

\* C21: for every request key at most one HTTP request is on the wire and the
\* in-flight entry is there exactly while the request of its owner is
\* pending; a query made while a request for its key is pending sends
\* nothing and awaits that request; and when the request settles, with data
\* or with an error, the entry is removed and every call that awaited it ends
\* with the outcome of the owner.
C21_OneInFlight ==
  /\ [](\A requestKey \in RequestKeys :
          /\ Cardinality(HttpInFlight(requestKey)) <= 1
          /\ PendingFor(requestKey) =
               {inFlightRequests[requestKey]} \ {NoCaller})
  /\ [][\A c \in Callers :
          /\ \A query \in Queries :
               (QueryCall(c, query)
                  /\ PendingFor(QueryOptions(query).requestKey) # {})
                 => /\ apiCall'[c].pc = "joined"
                    /\ apiCall'[c].joined \in PendingFor(QueryOptions(query).requestKey)
                    /\ \A requestKey \in RequestKeys :
                         HttpInFlight(requestKey)' = HttpInFlight(requestKey)
          /\ (Pending(c) /\ apiCall[c].requestKey \in RequestKeys /\ ~Pending(c)')
               => /\ inFlightRequests'[apiCall[c].requestKey] = NoCaller
                  /\ \A j \in Callers :
                       (apiCall[j].pc = "joined" /\ apiCall[j].joined = c)
                         => /\ apiCall'[j].pc = "idle"
                            /\ apiResult'[j].by = "joined"
                            /\ apiResult'[j].outcome = apiResult'[c].outcome]_vars

\* C21 witness: a query that found the request of the other caller pending
\* has ended with that request's error after its third attempt failed, and no
\* in-flight entry is left.
C21_Witness ==
  /\ apiResult["c2"].by = "joined"
  /\ apiResult["c2"].outcome = Thrown("NetworkError")
  /\ apiResult["c1"].by = "request"
  /\ apiResult["c1"].outcome = Thrown("NetworkError")
  /\ apiResult["c1"].attempts = 3
  /\ \A requestKey \in RequestKeys : inFlightRequests[requestKey] = NoCaller

\* Caller c puts an HTTP request on the wire in this step.
Sends(c) == apiCall[c].pc # "fetching" /\ apiCall'[c].pc = "fetching"

\* C22 (as claimed): after a 429 answer no HTTP request is sent before the
\* cooldown of 15 s has elapsed, and a read query made during the cooldown
\* never throws: unless the cache or a request already pending answers it, it
\* returns its default value at once.
C22_CooldownRespected ==
  [][\A c \in Callers :
       /\ Sends(c) => now' >= rateLimitUntil
       /\ \A query \in Queries :
            (QueryCall(c, query) /\ now < rateLimitUntil)
              => \/ apiCall'[c].pc = "joined"
                 \/ /\ apiCall'[c].pc = "idle"
                    /\ apiResult'[c].by = "cache"
                    /\ apiResult'[c].returned.kind = "data"
                 \/ /\ apiCall'[c].pc = "idle"
                    /\ apiResult'[c].returned = DefaultValue]_vars

\* C23: a call of fetchWithRetry ends after at most retries + 1 attempts: a
\* response, 429 and other error statuses included, ends it at once; a thrown
\* network failure is followed by a wait of 250 * 2^k ms after attempt k and
\* the next attempt, and after attempt number `retries` by the error; the
\* next attempt is not sent before its wait is over; and every call ends.
C23_BoundedRetry ==
  /\ [](/\ apiCall[RetryCaller].attempt <= apiCall[RetryCaller].retries
        /\ Len(apiCall[RetryCaller].waits) = apiCall[RetryCaller].attempt
                                     + (IF apiCall[RetryCaller].pc = "sleeping" THEN 1 ELSE 0)
        /\ \A k \in 1..Len(apiCall[RetryCaller].waits) : apiCall[RetryCaller].waits[k] = 250 * 2 ^ (k - 1))
  /\ [][/\ \A response \in Responses :
             HttpRespond(RetryCaller, response) =>
               IF response = "network failure" /\ apiCall[RetryCaller].attempt < apiCall[RetryCaller].retries
               THEN /\ apiCall'[RetryCaller].pc = "sleeping"
                    /\ apiCall'[RetryCaller].wakeAt = now + 250 * 2 ^ apiCall[RetryCaller].attempt
               ELSE /\ apiCall'[RetryCaller].pc = "idle"
                    /\ apiResult'[RetryCaller].attempts = apiCall[RetryCaller].attempt + 1
                    /\ apiResult'[RetryCaller].attempts <= apiCall[RetryCaller].retries + 1
                    /\ apiResult'[RetryCaller].outcome.kind =
                         CASE response = "ok" -> "data"
                           [] response = "429" -> "RateLimitError"
                           [] response = "error status" -> "HttpError"
                           [] response = "network failure" -> "NetworkError"
        /\ Wake(RetryCaller) => /\ now' >= apiCall[RetryCaller].wakeAt
                      /\ apiCall'[RetryCaller].attempt = apiCall[RetryCaller].attempt + 1]_vars
  /\ (Pending(RetryCaller) ~> ~Pending(RetryCaller))

\* C23 witness: broadcastTransaction (retries 1) has rethrown the network
\* failure of its second attempt, made 250 ms after the first.
C23_Witness ==
  /\ apiResult["c1"].op = "broadcastTransaction"
  /\ apiResult["c1"].attempts = 2
  /\ apiResult["c1"].waits = <<250>>
  /\ apiResult["c1"].returned = Thrown("NetworkError")

\* The indices of the words of a text, whatever their case, and what
\* decodeMetadata reads from them.
IndicesOf(text) ==
  [i \in 1..Len(Tokens(text)) |-> WORD_TO_INDEX(toLowerCase(Tokens(text)[i]))]
MetadataOf(text) == decodeMetadata(IndicesOf(text))

\* C24: a 16-byte secret gives a mnemonic of 20 words and a 32-byte secret
\* one of 33; the generated mnemonic passes validateMnemonic and
\* recoverMasterSecret returns the secret from it; a second generation of the
\* same secret gives the same mnemonic exactly when it draws the same
\* identifier, and the secret is recovered from the first mnemonic as well.
C24_RoundTrip ==
  /\ slip.generations > 0 /\ Len(slip.masterSecret) \in {16, 32} =>
       /\ slip.generated.error = "none"
       /\ Len(Tokens(slip.generated.value))
            = IF Len(slip.masterSecret) = 16 THEN 20 ELSE 33
  /\ slip.generated.error = "none" /\ slip.op = "validateMnemonic" => slip.valid
  /\ slip.generated.error = "none" /\ slip.op = "recoverMasterSecret" =>
       slip.recovered = Returns(slip.masterSecret)
  /\ /\ slip.generated.error = "none"
     /\ slip.previous # NoGeneration
     /\ slip.previous.masterSecret = slip.masterSecret
     => /\ (slip.previous.mnemonic = slip.generated.value)
             <=> (slip.previous.identifier = slip.identifier)
        /\ recoverMasterSecret(slip.previous.mnemonic) = Returns(slip.masterSecret)

C24_Witness ==
  /\ slip.op = "recoverMasterSecret"
  /\ Len(slip.masterSecret) = 32
  /\ slip.previous.masterSecret = slip.masterSecret
  /\ slip.previous.identifier # slip.identifier
  /\ slip.previous.mnemonic # slip.mnemonic
  /\ slip.recovered = Returns(slip.masterSecret)

\* C25: feistelCipherDecrypt returns the data feistelCipherEncrypt was given,
\* for data of even length and the same passphrase, iteration exponent,
\* identifier and extendable flag, whatever the round function; either of
\* the two refuses data of odd length, and no other.
C25_CipherRoundTrip ==
  /\ slip.ops = <<"feistelCipherEncrypt", "feistelCipherDecrypt">> =>
       slip.out = Returns(slip.data)
  /\ Len(slip.ops) = 1 =>
       IF Len(slip.data) % 2 = 0
       THEN slip.out.error = "none" /\ Len(slip.out.value) = Len(slip.data)
       ELSE slip.out = Throw("Data length must be even")

C25_Witness ==
  /\ slip.ops = <<"feistelCipherEncrypt", "feistelCipherDecrypt">>
  /\ slip.data = VectorSecret
  /\ slip.passphrase # <<>>
  /\ slip.iterationExponent = 1
  /\ ~slip.extendable
  /\ slip.out = Returns(slip.data)
  /\ feistelCipherEncrypt(slip.data, slip.passphrase, slip.iterationExponent,
                          slip.identifier, slip.extendable) # slip.out

\* C26: decodeShare returns the metadata and the value encodeShare was given,
\* for metadata within the ranges of their fields and values of 16 and of 32
\* bytes, which make 20 and 33 words.
C26_CodecLossless ==
  /\ slip.op # "none" =>
       Len(slip.words) = IF Len(slip.encryptedSecret) = 16 THEN 20 ELSE 33
  /\ slip.op = "decodeShare" =>
       slip.decoded = Returns([metadata |-> slip.metadata,
                               encryptedSecret |-> slip.encryptedSecret])

C26_Witness ==
  /\ slip.op = "decodeShare"
  /\ slip.metadata.groupCount = 7
  /\ slip.metadata.identifier = 32767
  /\ slip.metadata.extendable
  /\ slip.metadata.memberThreshold = 16
  /\ Len(slip.encryptedSecret) = 32
  /\ slip.decoded.error = "none"
  /\ slip.decoded.value.metadata.groupCount = 7

\* The text is 20 or 33 words of the vocabulary, and its RS1024 checksum
\* verifies under the customization its extendable bit chooses.
IsVocabularyText(text) ==
  /\ Len(Tokens(text)) \in {20, 33}
  /\ \A i \in 1..Len(Tokens(text)) : IndicesOf(text)[i] # Null

ChecksumVerifies(text) ==
  rs1024Polymod(
    charCodes(IF MetadataOf(text).extendable THEN "shamir_extendable" ELSE "shamir")
      \o IndicesOf(text)) = 1

\* C27: recoverMasterSecret fails with an error, and returns no master
\* secret, for a text of 20 or 33 vocabulary words whose checksum does not
\* verify.
C27_ChecksumVerifiedAtRecovery ==
  /\ slip.op = "recoverMasterSecret"
  /\ IsVocabularyText(slip.mnemonic)
  /\ ~ChecksumVerifies(slip.mnemonic)
  => slip.recovered.error # "none"

\* The metadata are those of a single share.
SingleShare(metadata) ==
  /\ metadata.groupCount = 1
  /\ metadata.groupThreshold = 1
  /\ metadata.memberThreshold = 1

\* C28: every mnemonic generateMnemonic returns has group count 1, group
\* threshold 1 and member threshold 1, and recoverMasterSecret fails with an
\* error for a mnemonic, its checksum in order, whose metadata have another
\* group count or threshold.
C28_SingleShareOnly ==
  /\ slip.generated.error = "none" => SingleShare(MetadataOf(slip.generated.value))
  /\ /\ slip.op = "recoverMasterSecret"
     /\ IsVocabularyText(slip.mnemonic)
     /\ ChecksumVerifies(slip.mnemonic)
     /\ ~SingleShare(MetadataOf(slip.mnemonic))
     => slip.recovered.error # "none"

\* C29: a mnemonic that validateMnemonic accepted, with one of its words
\* replaced by a different word of the vocabulary, is rejected by
\* validateMnemonic.
C29_SubstitutionDetected ==
  slip.op = "validateMnemonic" /\ slip.lastEdit = "ReplaceWord" => ~slip.valid

C29_Witness ==
  /\ slip.op = "validateMnemonic"
  /\ slip.lastEdit = "ReplaceWord"
  /\ slip.position = 3
  /\ slip.origin = "generateMnemonic"
  /\ MetadataOf(slip.mnemonic).extendable
  /\ Len(Tokens(slip.mnemonic)) = 33
  /\ ~slip.valid

\* C30: validateMnemonic returns true exactly for a text whose pieces between
\* whitespace are 20 or 33 words of the vocabulary, in any case, with a
\* checksum that verifies under the customization the extendable bit of word
\* 1 chooses, and false for every other text.
C30_ValidateExactly ==
  slip.op = "validateMnemonic" =>
    slip.valid = (IsVocabularyText(slip.mnemonic) /\ ChecksumVerifies(slip.mnemonic))

C30_Witness ==
  /\ slip.op = "validateMnemonic"
  /\ slip.lastEdit = "Reformat"
  /\ slip.mnemonic[1] = Whitespace
  /\ slip.origin = "foreign"
  /\ MetadataOf(slip.mnemonic).extendable
  /\ slip.valid

\* C31: validateMnemonic accepts the vector mnemonic, and its value decrypted
\* with the passphrase TREZOR under the reference PBKDF2 is the master secret
\* bb54aac4b89dc868ba37d9cc21b2cece.
C31_ReferenceVector ==
  /\ slip.op = "validateMnemonic" /\ slip.mnemonic = VectorMnemonic => slip.valid
  /\ /\ slip.op = "feistelCipherDecrypt"
     /\ slip.passphrase = Trezor
     /\ IndicesOf(slip.mnemonic) = VectorIndices
     => slip.decrypted = Returns(VectorSecret)

C31_Witness ==
  /\ slip.op = "feistelCipherDecrypt"
  /\ slip.passphrase = Trezor
  /\ slip.mnemonic = VectorMnemonic
  /\ slip.valid
  /\ slip.decrypted = Returns(VectorSecret)
  /\ slip.recovered.error = "none"
  /\ slip.recovered # slip.decrypted

\* The unspent outputs on the funding-role addresses of an account, and
\* whether they are worth more than the fee of their sweep and the dust limit.
FundingUtxos(account) ==
  UNION { UtxosAt(a.address) : a \in Range(fundingSourceAddresses(account)) }

WorthSweeping(account, feeRate) ==
  SumValues(FundingUtxos(account))
    > estimateInheritanceMultisigFee(Cardinality(FundingUtxos(account)), 1, feeRate)
        + DustLimit

\* C32: whenever the funding-role addresses of the user's stored inheritance
\* account hold unspent outputs worth more than the fee plus the dust limit,
\* activateInheritanceFunds called with that fee rate passes its checks on
\* the stored account, after an activation as well as before.
C32_FundingSweepable ==
  \A feeRate \in FeeRates :
    feeRate > 0 /\ WorthSweeping(StoredAccount("user"), feeRate)
      => activatePrecheck(StoredAccount("user"), feeRate) = "proceed"

\* ------------------------------------------ sharing an inheritance account
\* A fingerprint as text: the master fingerprint of a wallet and the way the
\* text is written (eight lower-case hex digits, upper case, a 0x prefix,
\* leading zeros left out, blanks around it, or no hex number at all).
FingerprintForms == {"plain", "upper", "prefixed", "unpadded", "blanks"}
FingerprintText(value, form) == [value |-> value, form |-> form]
formatFingerprint(fingerprint) == FingerprintText(fingerprint, "plain")

\* fingerprint.trim().toLowerCase().replace(/^0x/, "").padStart(8, "0")
normalizeFingerprint(fingerprint) ==
  IF fingerprint.form \in FingerprintForms
  THEN [fingerprint EXCEPT !.form = "plain"]
  ELSE fingerprint

\* An extended public key as text: the key node it encodes ("" for the empty
\* text) and whether the text holds white space.
ExtendedKey(node, spaces) == [node |-> node, spaces |-> spaces]
normalizeExtendedKey(extendedKey) == [extendedKey EXCEPT !.spaces = FALSE]

\* parseExtendedKey(extendedKey).publicExtendedKey: base58 decoding throws on
\* white space and on the empty text.
normalizeExtendedPublicKey(extendedKey) ==
  IF extendedKey.spaces \/ extendedKey.node = ""
  THEN Throw("InvalidKey")
  ELSE Returns(extendedKey)

\* Same public key, chain code, depth and index.
areSameExtendedPublicNode(a, b) ==
  normalizeExtendedKey(a).node = normalizeExtendedKey(b).node

\* deriveLocalIdentity(masterKey) of the wallet's own mnemonic, and the
\* identity of the hard-coded server mnemonic.
deriveLocalIdentity(wallet) ==
  [fingerprint |-> formatFingerprint(wallet), xpub |-> ExtendedKey(wallet, FALSE)]
getServerIdentity == deriveLocalIdentity("server")

\* (hashStringToUint32(accountId) % 2147483646) + 1 for the ids of the model:
\* the FNV-1a hashes of the two ids are 3672802870 and 2993313205.
SharedIds ==
  {"inheritance-1b4e28ba-2fa1-11d2-883f-0016d3cca427",
   "inheritance-6fa459ea-ee8a-3ca4-894e-db77e160355e"}
deterministicBranchFromId(accountId) ==
  IF accountId = "inheritance-1b4e28ba-2fa1-11d2-883f-0016d3cca427"
  THEN 1525319225
  ELSE 845829560

getFundingBranch(account) == account.fundingBranch

\* The 2-of-2 pay-to-witness-script-hash address of the two child keys at
\* change/addressIndex, the public keys sorted; `branch` is the funding
\* branch of the funding addresses and 0 for the active ones.
deriveInheritanceDescriptorFromXpubs(userXpub, otherXpub, addressIndex, change, branch) ==
  [pubkeys |-> {userXpub.node, otherXpub.node}, change |-> change,
   index |-> addressIndex, branch |-> branch]

\* normalizeCounterpartyContact(counterparty)
normalizeCounterpartyContact(counterparty) ==
  LET normalizedFingerprint == normalizeFingerprint(counterparty.fingerprint)
      normalizedXpubInput == normalizeExtendedKey(counterparty.xpub)
  IN IF normalizedFingerprint.form # "plain" THEN Throw("InvalidFingerprint")
     ELSE IF normalizedXpubInput.node = "" THEN Throw("EmptyKey")
     ELSE IF normalizeExtendedPublicKey(normalizedXpubInput).error # "none"
     THEN Throw("InvalidKey")
     ELSE Returns([fingerprint |-> normalizedFingerprint,
                   xpub |-> normalizeExtendedPublicKey(normalizedXpubInput).value])

resolveInheritanceParticipantsFromInputs(localRole, localFingerprint, localXpub, counterpartyFingerprint, counterpartyXpub) ==
  [userFingerprint |->
     IF localRole = "user" THEN localFingerprint ELSE counterpartyFingerprint,
   userXpub |-> IF localRole = "user" THEN localXpub ELSE counterpartyXpub,
   heirFingerprint |->
     IF localRole = "heir" THEN localFingerprint ELSE counterpartyFingerprint,
   heirXpub |-> IF localRole = "heir" THEN localXpub ELSE counterpartyXpub]

\* resolveInheritanceParticipants(account, identity): every account of this
\* code stores its local and counterparty keys.
resolveInheritanceParticipants(account) ==
  resolveInheritanceParticipantsFromInputs(account.localRole,
    account.localFingerprint, account.localXpub,
    account.counterpartyFingerprint, account.counterpartyXpub)

\* The account createInheritanceAccount builds from the local identity, the
\* counterparty's contact, the role, the conditions and the id; the stored one
\* when the id is in the store already. `value.accounts` is the store after
\* the call.
createSharedAccount(accounts, wallet, name, counterparty, localRole, conditions, accountId) ==
  LET identity == deriveLocalIdentity(wallet)
      normalizedCounterparty == normalizeCounterpartyContact(counterparty)
      contact == normalizedCounterparty.value
      participantSet ==
        resolveInheritanceParticipantsFromInputs(localRole,
          identity.fingerprint, identity.xpub, contact.fingerprint, contact.xpub)
      fundingBranch == deterministicBranchFromId(accountId)
      existing == findIndex(accounts, accountId)
      account ==
        [id |-> accountId, name |-> name, type |-> "inheritance",
         addressIndex |-> 1,
         derivedAddresses |->
           << DerivedAddress(0,
                deriveInheritanceDescriptorFromXpubs(participantSet.userXpub,
                  getServerIdentity.xpub, 0, 0, fundingBranch),
                FALSE, FALSE, 0, "funding"),
              DerivedAddress(0,
                deriveInheritanceDescriptorFromXpubs(participantSet.userXpub,
                  participantSet.heirXpub, 0, 0, 0),
                FALSE, FALSE, 0, "active") >>,
         localRole |-> localRole,
         localFingerprint |-> identity.fingerprint,
         localXpub |-> identity.xpub,
         counterpartyFingerprint |-> contact.fingerprint,
         counterpartyXpub |-> contact.xpub,
         fundingBranch |-> fundingBranch,
         heirFingerprint |-> contact.fingerprint,
         heirXpub |-> contact.xpub,
         inheritanceActivated |-> FALSE,
         spendingConditions |-> conditions,
         inheritanceStatus |-> NoStatus]
  IN IF normalizedCounterparty.error # "none"
     THEN Throw(normalizedCounterparty.error)
     ELSE IF existing # 0
     THEN Returns([account |-> accounts[existing], accounts |-> accounts])
     ELSE Returns([account |-> account, accounts |-> Append(accounts, account)])

\* exportInheritanceAccountShare(mnemonic, account): the prefix and the JSON
\* text of the payload.
exportInheritanceAccountShare(account) ==
  LET participants == resolveInheritanceParticipants(account)
  IN [prefixed |-> TRUE, padded |-> FALSE,
      json |->
        [type |-> "inheritance-account",
         sharedAccountId |-> account.id,
         accountName |-> account.name,
         participants |->
           [user |-> [fingerprint |-> participants.userFingerprint,
                      xpub |-> participants.userXpub],
            heir |-> [fingerprint |-> participants.heirFingerprint,
                      xpub |-> participants.heirXpub]],
         spendingConditions |-> account.spendingConditions]]

\* importInheritanceAccountShare(mnemonic, rawShare) for a payload with
\* `participants`: trim, the optional prefix, the type, the local role from
\* the identity (the user's place is tested first), and
\* createInheritanceAccount with the shared id.
importInheritanceAccountShare(accounts, wallet, rawShare) ==
  LET payload == rawShare.json
      identity == deriveLocalIdentity(wallet)
      normalizedLocalFingerprint == normalizeFingerprint(identity.fingerprint)
      normalizedLocalXpub == normalizeExtendedKey(identity.xpub)
      participants == payload.participants
      isLocalUser ==
        \/ areSameExtendedPublicNode(normalizedLocalXpub,
                                     normalizeExtendedKey(participants.user.xpub))
        \/ normalizedLocalFingerprint
             = normalizeFingerprint(participants.user.fingerprint)
      isLocalHeir ==
        \/ areSameExtendedPublicNode(normalizedLocalXpub,
                                     normalizeExtendedKey(participants.heir.xpub))
        \/ normalizedLocalFingerprint
             = normalizeFingerprint(participants.heir.fingerprint)
      localRole == IF isLocalUser THEN "user" ELSE "heir"
      counterparty == IF isLocalUser THEN participants.heir ELSE participants.user
  IN IF payload = <<>> THEN Throw("Empty")
     ELSE IF payload.type # "inheritance-account" THEN Throw("UnknownFormat")
     ELSE IF ~isLocalUser /\ ~isLocalHeir THEN Throw("NotThisWallet")
     ELSE createSharedAccount(accounts, wallet, trim(payload.accountName),
            counterparty, localRole, payload.spendingConditions,
            payload.sharedAccountId)

\* createInheritanceAccount(mnemonic, name, counterparty, localRole,
\* conditions) from the form: the id is a fresh random UUID.
ContactKeys == {ExtendedKey(w, s) : w \in Wallets, s \in BOOLEAN} \cup {ExtendedKey("", FALSE)}
ContactFingerprints ==
  {FingerprintText(w, f) : w \in Wallets, f \in FingerprintForms \cup {"nohex"}}
SharedConditions == {SpendingConditions(0, 1, 2), SpendingConditions(1, 2, 2)}
UsedIds ==
  UNION {{sharing.accounts[w][i].id : i \in 1..Len(sharing.accounts[w])} : w \in Wallets}

SharedAccountIds == UsedIds \cap SharedIds

CreateSharedAccount(w, localRole, counterparty, conditions, accountId) ==
  LET created ==
        createSharedAccount(sharing.accounts[w], w, "Savings", counterparty,
                            localRole, conditions, accountId)
  IN /\ Cardinality(SharedAccountIds) < MaxShared
     /\ accountId \notin UsedIds
     /\ created.error = "none"
     /\ sharing' = [sharing EXCEPT !.accounts[w] = created.value.accounts]
     /\ UNCHANGED <<walletVars, apiVars, slip, network, origins, walletFile>>

\* exportInheritanceAccountShare of a stored inheritance account (the call
\* throws for a standard one); the text then travels to the other wallets.
ExportInheritanceAccountShare(w, i) ==
  /\ i \in 1..Len(sharing.accounts[w])
  /\ sharing.accounts[w][i].type = "inheritance"
  /\ sharing' = [sharing EXCEPT
       !.exporter = w, !.exported = sharing.accounts[w][i],
       !.rawShare = exportInheritanceAccountShare(sharing.accounts[w][i]),
       !.importer = "none", !.imported = NoImport, !.before = <<>>]
  /\ UNCHANGED <<walletVars, apiVars, slip, network, origins, walletFile>>

\* importInheritanceAccountShare of the pasted text, with or without the
\* prefix and with blanks around it.
ImportSharedAccount(w, prefixed, padded) ==
  LET accounts == sharing.accounts[w]
      rawShare == [sharing.rawShare EXCEPT !.prefixed = prefixed, !.padded = padded]
      imported == importInheritanceAccountShare(accounts, w, rawShare)
  IN /\ sharing.exporter # "none"
     /\ sharing' = [sharing EXCEPT
          !.importer = w, !.imported = imported, !.before = accounts,
          !.accounts[w] = IF imported.error = "none"
                          THEN imported.value.accounts ELSE accounts]
     /\ UNCHANGED <<walletVars, apiVars, slip, network, origins, walletFile>>

NextSharing ==
  \/ \E w \in Wallets, localRole \in {"user", "heir"}, conditions \in SharedConditions,
        fp \in ContactFingerprints, key \in ContactKeys, accountId \in SharedIds :
       CreateSharedAccount(w, localRole, [fingerprint |-> fp, xpub |-> key],
                           conditions, accountId)
  \/ \E w \in Wallets, i \in 1..2 : ExportInheritanceAccountShare(w, i)
  \/ \E w \in Wallets, prefixed \in BOOLEAN, padded \in BOOLEAN :
       ImportSharedAccount(w, prefixed, padded)

SpecSharing == Init /\ [][NextSharing]_vars


\* ------------------------------------------- the accounts of one wallet
\* deriveTaprootAddress(masterKey, accountIndex, addressIndex, change): the
\* pay-to-taproot address of the key at 86'/1'/accountIndex'/change/index.
deriveTaprootAddressAt(wallet, accountIndex, addressIndex, change) ==
  [key |-> wallet, account |-> accountIndex, change |-> change,
   index |-> addressIndex]

\* `account-${Date.now()}`
accountIdAt(ms) ==
  IF ms = 0 THEN "account-0"
  ELSE IF ms = 1 THEN "account-1"
  ELSE IF ms = 2 THEN "account-2"
  ELSE IF ms = 3 THEN "account-3"
  ELSE "account-4"

\* accounts.findIndex((a) => a.id === account.id), from 0; -1 when absent.
accountIndexOf(accounts, accountId) == findIndex(accounts, accountId) - 1

\* createStandardAccount(mnemonic, name): the store after the call.
createStandardAccount(accounts, wallet, name, ms) ==
  LET accountIndex == Len(accounts)
      address == deriveTaprootAddressAt(wallet, accountIndex, 0, 0)
      account ==
        [id |-> accountIdAt(ms), name |-> name, type |-> "standard",
         balance |-> 0, addressIndex |-> 1,
         derivedAddresses |->
           << DerivedAddress(0, address, FALSE, FALSE, 0, "none") >>]
  IN Append(accounts, account)

CreateStandardAccount(w, name) ==
  /\ Len(sharing.accounts[w]) < MaxAccounts
  /\ sharing' = [sharing EXCEPT
       !.accounts[w] = createStandardAccount(sharing.accounts[w], w, name, now)]
  /\ UNCHANGED <<walletVars, apiVars, slip, network, origins, walletFile>>

\* deleteAccount(accountId) of a stored account.
DeleteStoredAccount(w, accountId) ==
  LET accounts == sharing.accounts[w]
      nextAccounts == SelectSeq(accounts, LAMBDA item : item.id # accountId)
  IN /\ Len(nextAccounts) # Len(accounts)
     /\ sharing' = [sharing EXCEPT !.accounts[w] = nextAccounts]
     /\ UNCHANGED <<walletVars, apiVars, slip, network, origins, walletFile>>

\* generateNewAddress(mnemonic, account) for the stored account at position
\* i (from 1) that the UI holds: the account index is the position of the
\* first stored account with the id.
generateNewAddress(accounts, wallet, account) ==
  LET accountIndex == accountIndexOf(accounts, account.id)
      isInheritance == account.type = "inheritance"
      newIndex ==
        IF isInheritance
        THEN Len(SelectSeq(account.derivedAddresses,
                           LAMBDA address : ~address.change /\ isFundingAddress(address)))
        ELSE Len(SelectSeq(account.derivedAddresses, LAMBDA address : ~address.change))
      address ==
        IF isInheritance
        THEN deriveInheritanceDescriptorFromXpubs(
               resolveInheritanceParticipants(account).userXpub,
               getServerIdentity.xpub, newIndex, 0, getFundingBranch(account))
        ELSE deriveTaprootAddressAt(wallet, accountIndex, newIndex, 0)
      newAddress ==
        DerivedAddress(newIndex, address, FALSE, FALSE, 0,
                       IF isInheritance THEN "funding" ELSE "none")
      updated ==
        [account EXCEPT !.derivedAddresses = Append(@, newAddress),
                        !.addressIndex = newIndex + 1]
  IN [accounts EXCEPT ![accountIndex + 1] = updated]

GenerateNewAddressAt(w, i) ==
  LET accounts == sharing.accounts[w]
  IN /\ i \in 1..Len(accounts)
     /\ accounts[i].addressIndex < MaxReceive
     /\ sharing' = [sharing EXCEPT
          !.accounts[w] = generateNewAddress(accounts, w, accounts[i])]
     /\ UNCHANGED <<walletVars, apiVars, slip, network, origins, walletFile>>

\* One wallet creates standard accounts while its clock runs, creates an
\* inheritance account, exports and imports its share, issues addresses and
\* deletes accounts.
Owner == "alice"
OwnerContact ==
  [fingerprint |-> FingerprintText("bob", "upper"), xpub |-> ExtendedKey("bob", TRUE)]

NextStandard ==
  \/ CreateStandardAccount(Owner, "Savings")
  \/ now < MaxClock /\ Elapse(1)
  \/ \E conditions \in SharedConditions, accountId \in SharedIds :
       /\ Len(sharing.accounts[Owner]) < MaxAccounts
       /\ CreateSharedAccount(Owner, "user", OwnerContact, conditions, accountId)
  \/ \E i \in 1..MaxAccounts : ExportInheritanceAccountShare(Owner, i)
  \/ Len(sharing.accounts[Owner]) < MaxAccounts /\ ImportSharedAccount(Owner, TRUE, FALSE)
  \/ \E i \in 1..MaxAccounts : GenerateNewAddressAt(Owner, i)
  \/ \E accountId \in UsedIds : DeleteStoredAccount(Owner, accountId)

SpecStandard == Init /\ [][NextStandard]_vars

\* --------------------------- specification of the switch between networks
\* Two callers ask for the UTXOs of an address and for the tip while the
\* server answers, time passes and the user switches the active network.
SwitchSteps == {1000}

NextNetwork ==
  \/ \E c \in Callers, query \in Queries : QueryCall(c, query)
  \/ \E c \in Callers : HttpRespond(c, "ok")
  \/ \E ms \in SwitchSteps : Elapse(ms)
  \/ \E nextNetwork \in Networks : SwitchNetwork(nextNetwork)

SpecNetwork == Init /\ [][NextNetwork]_vars

\* ------------------------------------------------- restoring a wallet
\* The share another tool can write: the words of encodeShare with the unused
\* high bits of the first secret word set to `padding`, and the checksum of
\* these words.
paddedShare(metadata, encryptedSecret, padding) ==
  LET totalWords == (Len(encryptedSecret) * 8 + 9) \div 10
      secretWords == secretWordsOf(bytesToBigInt(encryptedSecret), totalWords)
      words ==
        encodeMetadata(metadata)
          \o [secretWords EXCEPT ![1] = @ + padding * 2 ^ (10 - ((totalWords * 10) % 16))]
      customization == IF metadata.extendable THEN "shamir_extendable" ELSE "shamir"
      all == words \o rs1024CreateChecksum(customization, words)
  IN [i \in 1..Len(all) |-> SLIP39_WORDLIST(all[i])]

Paddings == {0, 1, 3}

EnterPadded(metadata, value, padding) ==
  /\ slip.origin = "none"
  /\ slip' = [slip EXCEPT !.op = "enter",
                          !.mnemonic = join(paddedShare(metadata, value, padding)),
                          !.origin = "foreign"]
  /\ UNCHANGED <<walletVars, apiVars, restVars>>

\* discoverAccounts(mnemonic) after its master key: createStandardAccount for
\* every index below the limit whose first address has a balance.
RECURSIVE discoverAccounts(_, _, _, _, _)
discoverAccounts(accounts, owner, funded, ms, i) ==
  IF i >= DiscoveryLimit THEN accounts
  ELSE discoverAccounts(
         IF i \in funded THEN createStandardAccount(accounts, owner, "Account", ms + i)
         ELSE accounts,
         owner, funded, ms, i + 1)

\* restoreWallet(mnemonic): what it returns or throws, whether saveWallet was
\* called, and the accounts in the store after it.  `funded` are the account
\* indices whose first address has a balance.
restoreWallet(accounts, owner, mnemonic, funded, ms) ==
  LET masterSecret == recoverMasterSecret(mnemonic)
      discovered == discoverAccounts(accounts, owner, funded, ms, 0)
  IN IF ~validateMnemonic(mnemonic)
     THEN [outcome |-> "null", saved |-> FALSE, accounts |-> accounts]
     ELSE IF masterSecret.error # "none"
     THEN [outcome |-> masterSecret.error, saved |-> TRUE, accounts |-> accounts]
     ELSE [outcome |-> "wallet", saved |-> TRUE,
           accounts |->
             IF Len(discovered) = 0
             THEN createStandardAccount(discovered, owner, "My account",
                                        ms + DiscoveryLimit)
             ELSE discovered]

RestoreWallet(funded) ==
  LET restored == restoreWallet(sharing.accounts[Owner], Owner, slip.mnemonic, funded, now)
  IN /\ slip.origin # "none"
     /\ walletFile.outcome = "none"
     /\ walletFile' = [saved |-> restored.saved,
                   mnemonic |-> IF restored.saved THEN slip.mnemonic ELSE <<>>,
                   outcome |-> restored.outcome]
     /\ sharing' = [sharing EXCEPT !.accounts[Owner] = restored.accounts]
     /\ UNCHANGED <<walletVars, apiVars, slip, network, origins>>

\* A text is entered in the restore form (a mnemonic this wallet generated,
\* one of another tool, or another text), and restoreWallet is called.
NextRestore ==
  \/ \E masterSecret \in MasterSecrets, array \in RandomPairs :
       GenerateMnemonicUpTo(masterSecret, array, 1)
  \/ \E metadata \in ForeignMetadata, value \in ForeignValues :
       EnterForeign(metadata, value)
  \/ \E metadata \in ForeignMetadata, padding \in Paddings :
       EnterPadded(metadata, [i \in 1..16 |-> (11 * i) % 256], padding)
  \/ \E text \in OtherTexts : EnterText(text)
  \/ \E funded \in SUBSET (0..(DiscoveryLimit - 1)) : RestoreWallet(funded)

SpecRestore == InitMnemonic /\ [][NextRestore]_vars

\* The funding and the active address an account's holder derives at
\* change/index: updateAccountBalance and generateNewAddress take the keys
\* from resolveInheritanceParticipants and the branch from getFundingBranch.
AddressesOf(account, index, change) ==
  LET participants == resolveInheritanceParticipants(account)
  IN << deriveInheritanceDescriptorFromXpubs(participants.userXpub,
          getServerIdentity.xpub, index, change, getFundingBranch(account)),
        deriveInheritanceDescriptorFromXpubs(participants.userXpub,
          participants.heirXpub, index, change, 0) >>

\* The last import was made by another wallet than the exporter's, and the
\* key the share names for the exporter's counterparty is that wallet's key.
ImportedByNamedCounterparty ==
  /\ sharing.importer \notin {"none", sharing.exporter}
  /\ sharing.exported.counterpartyXpub.node = sharing.importer

\* C33: when the counterparty a share names imports it, the import succeeds
\* and the importer's account has the exporter's id, funding branch, spending
\* conditions and user/heir keys, the opposite local role, and so the same
\* funding and active address at every index of both chains.
C33_ShareAgreement ==
  ImportedByNamedCounterparty =>
    /\ sharing.imported.error = "none"
    /\ LET mine == sharing.exported
           theirs == sharing.imported.value.account
       IN /\ theirs.id = mine.id
          /\ getFundingBranch(theirs) = getFundingBranch(mine)
          /\ theirs.spendingConditions = mine.spendingConditions
          /\ resolveInheritanceParticipants(theirs).userXpub
               = resolveInheritanceParticipants(mine).userXpub
          /\ resolveInheritanceParticipants(theirs).heirXpub
               = resolveInheritanceParticipants(mine).heirXpub
          /\ theirs.localRole # mine.localRole
          /\ theirs.derivedAddresses = mine.derivedAddresses
          /\ \A index \in 0..(AuditLimit - 1), change \in {0, 1} :
               AddressesOf(theirs, index, change) = AddressesOf(mine, index, change)



\* The last import found the shared id in the store: the call returned the
\* stored account and left the store as it was.
ImportIdempotent ==
  LET accountId == sharing.rawShare.json.sharedAccountId
      stored == findIndex(sharing.before, accountId)
  IN (sharing.importer # "none" /\ sharing.imported.error = "none" /\ stored # 0)
       => /\ sharing.imported.value.account = sharing.before[stored]
          /\ sharing.imported.value.accounts = sharing.before

\* No two accounts of a store have the same id.
UniqueIds ==
  \A w \in Wallets :
    \A i, j \in 1..Len(sharing.accounts[w]) :
      i # j => sharing.accounts[w][i].id # sharing.accounts[w][j].id

\* C34: an import of a share whose id is in the store returns the stored
\* account and leaves the store unchanged, and after any sequence of
\* createStandardAccount, createInheritanceAccount and import calls no two
\* stored accounts have the same id.
C34_IdempotentAndUnique == ImportIdempotent /\ UniqueIds


\* The stored standard accounts of the owner, by their positions.
StandardPositions ==
  {i \in 1..Len(sharing.accounts[Owner]) : sharing.accounts[Owner][i].type = "standard"}

\* The account index the first address of a stored account was derived with.
CreationIndex(account) == account.derivedAddresses[1].address.account

\* C35: while the ids of the store are distinct, the account index that
\* generateNewAddress, updateAccountBalance and sendBitcoin look up for a
\* stored standard account is the index its first address was derived with,
\* every address of the account is derived with that index, and no two
\* stored standard accounts were derived with the same index.
C35_StableExclusiveIndex ==
  LET accounts == sharing.accounts[Owner]
  IN UniqueIds =>
       /\ \A i \in StandardPositions :
            /\ accountIndexOf(accounts, accounts[i].id) = CreationIndex(accounts[i])
            /\ \A k \in 1..Len(accounts[i].derivedAddresses) :
                 accounts[i].derivedAddresses[k].address.account
                   = CreationIndex(accounts[i])
       /\ \A i, j \in StandardPositions :
            i # j => CreationIndex(accounts[i]) # CreationIndex(accounts[j])


\* The transaction a step of createInheritancePartiallySignedTransaction
\* adds to the PSBTs in circulation.
BuiltBy(p) ==
  IF sp[p].pc = "collect" /\ sp'[p].pc = "idle" THEN psbts' \ psbts ELSE {}

\* C36: the fee a successful createInheritancePartiallySignedTransaction
\* returns is the sum of the input values minus the sum of the output values
\* of the transaction it built, and the changeAmount and changeAddress it
\* returns are those of the change output, or 0 and the empty address when
\* the transaction has none.
C36_ResultDescribesTransaction ==
  [][\A p \in Parties : \A psbt \in BuiltBy(p) :
       /\ result'[p].fee = psbt.inputValue - SumOutputs(psbt)
       /\ IF Len(psbt.outputs) = 2
          THEN /\ result'[p].changeAmount = psbt.outputs[2].value
               /\ result'[p].changeAddress = psbt.outputs[2].address
          ELSE /\ result'[p].changeAmount = 0
               /\ result'[p].changeAddress = NoAddress]_vars


\* C37: a query that is answered from the cache gets data the active network
\* gave, and a query that joins a request in flight joins a request sent to
\* the active network.
C37_AnswersOfActiveNetwork ==
  [][\A c \in Callers :
       (apiCall[c].pc = "idle" /\ apiCall'[c].calls = apiCall[c].calls + 1) =>
         /\ (apiCall'[c].pc = "idle" /\ apiResult'[c].by = "cache")
              => origins[apiResult'[c].outcome.data] = network
         /\ apiCall'[c].pc = "joined"
              => apiCall[apiCall'[c].joined].base = network]_vars


\* C38: restoreWallet returns null or throws with no wallet saved and no
\* account stored, or it returns the wallet with the wallet saved and at
\* least one account stored.
C38_RestoreAllOrNothing ==
  walletFile.outcome # "none" =>
    IF walletFile.outcome = "wallet"
    THEN walletFile.saved /\ Len(sharing.accounts[Owner]) >= 1
    ELSE ~walletFile.saved /\ sharing.accounts[Owner] = <<>>


\* ------------------------- specification of successive eligibility refreshes
\* The user's activated account, its sweep not yet confirmed, is refreshed
\* MaxSuccessive times from the store while blocks are mined; each refresh
\* asks the chain for the tip and the first funding heights, and one of these
\* requests may fail.
InitEligibility ==
  /\ tip = 0
  /\ \E conditions \in StatusConditionChoices :
       AfterActivation(conditions, conditions, 0)

NextEligibility ==
  \/ Mine
  \/ calls["user"].refresh < MaxSuccessive /\ RefreshBegin("user", TRUE)
  \/ RefreshFetch("user")
  \/ RefreshSave("user")

SpecEligibility == InitEligibility /\ [][NextEligibility]_vars

\* C39 (as claimed): when a balance refresh of the activated inheritance
\* account writes its result, the stored blocksSinceFunding is not lower than
\* the one stored before, and canUserSpend and canHeirSpend, once stored
\* true, are stored true again, also when a chain-data request of that
\* refresh failed.
C39_EligibilityNeverReverts ==
  [][(RefreshSave("user") /\ StoredAccount("user").inheritanceActivated) =>
       LET before == StoredAccount("user").inheritanceStatus
           after == StoredAccount("user").inheritanceStatus'
       IN /\ after.blocksSinceFunding >= before.blocksSinceFunding
          /\ before.canUserSpend => after.canUserSpend
          /\ before.canHeirSpend => after.canHeirSpend]_vars

====
